---- MODULE Spec2Model ----
(***************************************************************************)
(* Chat request router, history sanitizer, CRM follow-up classifier and    *)
(* the text-overlay styling resolver of the chat application.              *)
(*                                                                         *)
(* Strings are sequences of characters.  A character outside ASCII is      *)
(* written by its code point ("u53f3" is U+53F3), an ASCII character by     *)
(* itself, so that substring tests, trimming, lower-casing and lengths     *)
(* are computed as the code computes them.                                 *)
(***************************************************************************)
EXTENDS Integers, Sequences, FiniteSets, TLC

\* ------------------------------------------------------------------------
\* Optional values (undefined / null versus a value)
\* ------------------------------------------------------------------------
None == <<>>
Some(v) == <<v>>
IsSome(o) == o /= <<>>
Get(o) == o[1]
\* JavaScript's  a ?? b
OrElse(o, d) == IF o /= <<>> THEN o[1] ELSE d

\* ------------------------------------------------------------------------
\* String primitives
\* ------------------------------------------------------------------------
\* String.prototype.includes
includes(s, w) ==
  \E i \in 0..(Len(s) - Len(w)) : SubSeq(s, i + 1, i + Len(w)) = w

includesAny(s, W) == \E w \in W : includes(s, w)

\* the regular expression  /^(w1|w2|...)/
startsWithAny(s, W) ==
  \E w \in W : Len(w) <= Len(s) /\ SubSeq(s, 1, Len(w)) = w

\* the characters matched by \s that occur in the inputs
Whitespace == {" ", "u3000"}

Upper == <<"A", "B", "C", "D", "E", "F", "G", "H", "I", "J", "K", "L", "M", "N", "O", "P", "Q", "R", "S", "T", "U", "V", "W", "X", "Y", "Z">>
Lower == <<"a", "b", "c", "d", "e", "f", "g", "h", "i", "j", "k", "l", "m", "n", "o", "p", "q", "r", "s", "t", "u", "v", "w", "x", "y", "z">>

lowerChar(c) ==
  IF \E i \in 1..Len(Upper) : Upper[i] = c
  THEN Lower[CHOOSE i \in 1..Len(Upper) : Upper[i] = c]
  ELSE c

\* String.prototype.toLowerCase
toLowerCase(s) == [i \in 1..Len(s) |-> lowerChar(s[i])]

\* s.replace(/\s+/g, "")
removeWhitespace(s) == SelectSeq(s, LAMBDA c : c \notin Whitespace)

RECURSIVE trimStart(_)
trimStart(s) ==
  IF s /= <<>> /\ Head(s) \in Whitespace THEN trimStart(Tail(s)) ELSE s

RECURSIVE trimEnd(_)
trimEnd(s) ==
  IF s /= <<>> /\ s[Len(s)] \in Whitespace THEN trimEnd(SubSeq(s, 1, Len(s) - 1)) ELSE s

\* String.prototype.trim
trim(s) == trimEnd(trimStart(s))

\* ------------------------------------------------------------------------
\* Keyword tables of the style parser, the overlay resolver and the
\* follow-up classifier
\* ------------------------------------------------------------------------
\* parseStyleHint: tokudai, do-n, mecha-dai
SizeXlargeWords ==
  { <<"u7279", "u5927">>,
    <<"u30c9", "u30fc", "u30f3">>,
    <<"u3081", "u3061", "u3083", "u5927">> }

\* parseStyleHint: ookime, ookiku, ookii
SizeLargeWords ==
  { <<"u5927", "u304d", "u3081">>,
    <<"u5927", "u304d", "u304f">>,
    <<"u5927", "u304d", "u3044">> }

\* parseStyleHint: chiisame, chiisai, hikaeme
SizeSmallWords ==
  { <<"u5c0f", "u3055", "u3081">>,
    <<"u5c0f", "u3055", "u3044">>,
    <<"u63a7", "u3048", "u3081">> }

\* parseStyleHint: futsuu, hyoujun
SizeMediumWords ==
  { <<"u666e", "u901a">>,
    <<"u6a19", "u6e96">> }

\* parseStyleHint: mou-sukoshi-ookiku, mou-chotto-ookiku, motto-ookiku, sarani-ookiku, choi-ookiku
LargerWords ==
  { <<"u3082", "u3046", "u5c11", "u3057", "u5927", "u304d", "u304f">>,
    <<"u3082", "u3046", "u3061", "u3087", "u3063", "u3068", "u5927", "u304d", "u304f">>,
    <<"u3082", "u3063", "u3068", "u5927", "u304d", "u304f">>,
    <<"u3055", "u3089", "u306b", "u5927", "u304d", "u304f">>,
    <<"u3061", "u3087", "u3044", "u5927", "u304d", "u304f">> }

\* parseStyleHint: mou-sukoshi-chiisaku, ...
SmallerWords ==
  { <<"u3082", "u3046", "u5c11", "u3057", "u5c0f", "u3055", "u304f">>,
    <<"u3082", "u3046", "u3061", "u3087", "u3063", "u3068", "u5c0f", "u3055", "u304f">>,
    <<"u3082", "u3063", "u3068", "u5c0f", "u3055", "u304f">>,
    <<"u3055", "u3089", "u306b", "u5c0f", "u3055", "u304f">>,
    <<"u3061", "u3087", "u3044", "u5c0f", "u3055", "u304f">> }

\* parseStyleHint: ichiban-shita, saikabu, footer, kabu, shita-no-hou, shitagawa
BottomWords ==
  { <<"u4e00", "u756a", "u4e0b">>,
    <<"u6700", "u4e0b", "u90e8">>,
    <<"u30d5", "u30c3", "u30bf", "u30fc">>,
    <<"u4e0b", "u90e8">>,
    <<"u4e0b", "u306e", "u65b9">>,
    <<"u4e0b", "u5074">> }

\* parseStyleHint: ichiban-ue, saijoubu, joutan, gamen-no-ue, joubu, ue-no-hou, uegawa
TopWords ==
  { <<"u4e00", "u756a", "u4e0a">>,
    <<"u6700", "u4e0a", "u90e8">>,
    <<"u4e0a", "u7aef">>,
    <<"u753b", "u9762", "u306e", "u4e0a">>,
    <<"u4e0a", "u90e8">>,
    <<"u4e0a", "u306e", "u65b9">>,
    <<"u4e0a", "u5074">> }

\* parseStyleHint: mannaka, center, chuushin, chuuou
MiddleWords ==
  { <<"u771f", "u3093", "u4e2d">>,
    <<"u30bb", "u30f3", "u30bf", "u30fc">>,
    <<"u4e2d", "u5fc3">>,
    <<"u4e2d", "u592e">> }

\* parseStyleHint: hidari-ue (top left)
w_hidariue == <<"u5de6", "u4e0a">>

\* parseStyleHint: migi-ue (top right)
w_migiue == <<"u53f3", "u4e0a">>

\* parseStyleHint: hidari-shita (bottom left)
w_hidarishita == <<"u5de6", "u4e0b">>

\* parseStyleHint: migi-shita (bottom right)
w_migishita == <<"u53f3", "u4e0b">>

\* parseStyleHint: hidari-yose, hidarigawa, hidarihashi
LeftWords ==
  { <<"u5de6", "u5bc4", "u305b">>,
    <<"u5de6", "u5074">>,
    <<"u5de6", "u7aef">> }

\* parseStyleHint: hidari (left)
w_hidari == <<"u5de6">>

\* parseStyleHint: migi-yose, migigawa, migihashi
RightWords ==
  { <<"u53f3", "u5bc4", "u305b">>,
    <<"u53f3", "u5074">>,
    <<"u53f3", "u7aef">> }

\* parseStyleHint: migi (right)
w_migi == <<"u53f3">>

\* parseStyleHint: chuuou (centre)
w_chuuou == <<"u4e2d", "u592e">>

\* parseStyleHint: mannaka (middle)
w_mannaka == <<"u771f", "u3093", "u4e2d">>

\* parseStyleHint: chuuou, mannaka, center, naka-yose
CenterWords ==
  { <<"u4e2d", "u592e">>,
    <<"u771f", "u3093", "u4e2d">>,
    <<"u30bb", "u30f3", "u30bf", "u30fc">>,
    <<"u4e2d", "u5bc4", "u305b">> }

\* parseStyleHint: sukoshi-migi, choi-migi, yaya-migi
NudgeRightWords ==
  { <<"u5c11", "u3057", "u53f3">>,
    <<"u3061", "u3087", "u3044", "u53f3">>,
    <<"u3084", "u3084", "u53f3">> }

\* parseStyleHint: sukoshi-hidari, ...
NudgeLeftWords ==
  { <<"u5c11", "u3057", "u5de6">>,
    <<"u3061", "u3087", "u3044", "u5de6">>,
    <<"u3084", "u3084", "u5de6">> }

\* parseStyleHint: sukoshi-ue, ...
NudgeUpWords ==
  { <<"u5c11", "u3057", "u4e0a">>,
    <<"u3061", "u3087", "u3044", "u4e0a">>,
    <<"u3084", "u3084", "u4e0a">> }

\* parseStyleHint: sukoshi-shita, ...
NudgeDownWords ==
  { <<"u5c11", "u3057", "u4e0b">>,
    <<"u3061", "u3087", "u3044", "u4e0b">>,
    <<"u3084", "u3084", "u4e0b">> }

\* parseStyleHint: three right arrows, migi-yajirushi
ArrowRightWords ==
  { <<"u2192">>,
    <<"u27a1">>,
    <<"u279c">>,
    <<"u53f3", "u77e2", "u5370">> }

\* parseStyleHint: two left arrows, hidari-yajirushi
ArrowLeftWords ==
  { <<"u2190">>,
    <<"u2b05">>,
    <<"u5de6", "u77e2", "u5370">> }

\* parseStyleHint: two up arrows, ue-yajirushi
ArrowUpWords ==
  { <<"u2191">>,
    <<"u2b06">>,
    <<"u4e0a", "u77e2", "u5370">> }

\* parseStyleHint: two down arrows, shita-yajirushi
ArrowDownWords ==
  { <<"u2193">>,
    <<"u2b07">>,
    <<"u4e0b", "u77e2", "u5370">> }

\* parseStyleHint: meirio (katakana)
w_meiryo == <<"u30e1", "u30a4", "u30ea", "u30aa">>

\* parseStyleHint: yuu-goshikku (full and half width)
YuGothicWords ==
  { <<"u6e38", "u30b4", "u30b7", "u30c3", "u30af">>,
    <<"u6e38", "uff7a", "uff9e", "uff7c", "uff6f", "uff78">> }

\* parseStyleHint: goshikku
w_goshikku == <<"u30b4", "u30b7", "u30c3", "u30af">>

\* parseStyleHint: minchou
w_minchou == <<"u660e", "u671d">>

\* parseStyleHint: tegaki, tegaki-fuu
HandwritingWords ==
  { <<"u624b", "u66f8", "u304d">>,
    <<"u624b", "u66f8", "u304d", "u98a8">> }

\* parseStyleHint: shiro-moji, shiro
WhiteWords ==
  { <<"u767d", "u6587", "u5b57">>,
    <<"u767d">> }

\* parseStyleHint: kuro-moji, kuro
BlackWords ==
  { <<"u9ed2", "u6587", "u5b57">>,
    <<"u9ed2">> }

\* parseStyleHint: aka-moji, aka
RedWords ==
  { <<"u8d64", "u6587", "u5b57">>,
    <<"u8d64">> }

\* parseStyleHint: ao-moji, ao
BlueWords ==
  { <<"u9752", "u6587", "u5b57">>,
    <<"u9752">> }

\* parseStyleHint: kiiro, ki
YellowWords ==
  { <<"u9ec4", "u8272">>,
    <<"u9ec4">> }

\* executeAddTextToExistingImage: henkou, kaeru, kakikae
ExplicitChangeWords ==
  { <<"u5909", "u66f4">>,
    <<"u5909", "u3048", "u308b">>,
    <<"u66f8", "u304d", "u63db", "u3048">> }

\* executeAddTextToExistingImage: minchou, mincho, serif
FontMinchoWords ==
  { <<"u660e", "u671d">>,
    <<"m", "i", "n", "c", "h", "o">>,
    <<"s", "e", "r", "i", "f">> }

\* executeAddTextToExistingImage: meirio, meiryo
FontMeiryoWords ==
  { <<"u30e1", "u30a4", "u30ea", "u30aa">>,
    <<"m", "e", "i", "r", "y", "o">> }

\* executeAddTextToExistingImage: goshikku, gothic
FontGothicWords ==
  { <<"u30b4", "u30b7", "u30c3", "u30af">>,
    <<"g", "o", "t", "h", "i", "c">> }

\* executeAddTextToExistingImage: futoji-yame, futoji-kaijo, futoji-wo-yame, futoji-wo-kaijo, tsuujou
BoldOffWords ==
  { <<"u592a", "u5b57", "u3084", "u3081">>,
    <<"u592a", "u5b57", "u89e3", "u9664">>,
    <<"u592a", "u5b57", "u3092", "u3084", "u3081">>,
    <<"u592a", "u5b57", "u3092", "u89e3", "u9664">>,
    <<"u901a", "u5e38">> }

\* executeAddTextToExistingImage: not bold, no bold
BoldOffLowerWords ==
  { <<"n", "o", "t", " ", "b", "o", "l", "d">>,
    <<"n", "o", " ", "b", "o", "l", "d">> }

\* executeAddTextToExistingImage: shatai-yame, shatai-kaijo, itarikku-yame, ...
ItalicOffWords ==
  { <<"u659c", "u4f53", "u3084", "u3081">>,
    <<"u659c", "u4f53", "u89e3", "u9664">>,
    <<"u30a4", "u30bf", "u30ea", "u30c3", "u30af", "u3084", "u3081">>,
    <<"u30a4", "u30bf", "u30ea", "u30c3", "u30af", "u89e3", "u9664">>,
    <<"u659c", "u4f53", "u3092", "u3084", "u3081">>,
    <<"u659c", "u4f53", "u3092", "u89e3", "u9664">> }

\* executeAddTextToExistingImage: not italic, no italic
ItalicOffLowerWords ==
  { <<"n", "o", "t", " ", "i", "t", "a", "l", "i", "c">>,
    <<"n", "o", " ", "i", "t", "a", "l", "i", "c">> }

\* executeAddTextToExistingImage: futoji, boorudo
BoldOnWords ==
  { <<"u592a", "u5b57">>,
    <<"u30dc", "u30fc", "u30eb", "u30c9">> }

\* executeAddTextToExistingImage: bold
BoldOnLowerWords ==
  { <<"b", "o", "l", "d">> }

\* executeAddTextToExistingImage: itarikku, shatai
ItalicOnWords ==
  { <<"u30a4", "u30bf", "u30ea", "u30c3", "u30af">>,
    <<"u659c", "u4f53">> }

\* executeAddTextToExistingImage: italic
ItalicOnLowerWords ==
  { <<"i", "t", "a", "l", "i", "c">> }

\* executeAddTextToExistingImage: the alternatives of the position regex
PositionWords ==
  { <<"u5de6", "u4e0a">>,
    <<"u53f3", "u4e0a">>,
    <<"u5de6", "u4e0b">>,
    <<"u53f3", "u4e0b">>,
    <<"u4e00", "u756a", "u4e0a">>,
    <<"u4e00", "u756a", "u4e0b">>,
    <<"u4e2d", "u592e">>,
    <<"u771f", "u3093", "u4e2d">>,
    <<"u30bb", "u30f3", "u30bf", "u30fc">>,
    <<"u4e0a", "u90e8">>,
    <<"u4e0b", "u90e8">> }

\* isAnalysisFollowupOnly: nippou, buka, shoudan, torihikisaki, sekininsha, katsudou, houmon, anken, uriage, mikomi, shicchuu, juchuu
DataPullWords ==
  { <<"u65e5", "u5831">>,
    <<"u90e8", "u4e0b">>,
    <<"u5546", "u8ac7">>,
    <<"u53d6", "u5f15", "u5148">>,
    <<"u8cac", "u4efb", "u8005">>,
    <<"u6d3b", "u52d5">>,
    <<"u8a2a", "u554f">>,
    <<"u6848", "u4ef6">>,
    <<"u58f2", "u4e0a">>,
    <<"u898b", "u8fbc">>,
    <<"u5931", "u6ce8">>,
    <<"u53d7", "u6ce8">> }

\* isAnalysisFollowupOnly: the alternatives of the re-query regex; it is case-insensitive, so the Latin alternatives are kept in lower case and matched against the lower-cased message
RequeryWords ==
  { <<"u4e00", "u89a7">>,
    <<"u62bd", "u51fa">>,
    <<"u691c", "u7d22">>,
    <<"u63a2", "u3057", "u3066">>,
    <<"u6559", "u3048", "u3066">>,
    <<"u4f55", "u4ef6">>,
    <<"u4ef6", "u6570">>,
    <<"u5148", "u9031">>,
    <<"u6628", "u65e5">>,
    <<"u4eca", "u6708">>,
    <<"u4eca", "u671f">>,
    <<"u4eca", "u9031">>,
    <<"u76f4", "u8fd1">>,
    <<"u904e", "u53bb">>,
    <<"u6761", "u4ef6">>,
    <<"u7d5e">>,
    <<"u30d5", "u30a3", "u30eb", "u30bf">>,
    <<"w", "h", "e", "r", "e">>,
    <<"a", "n", "d">>,
    <<"o", "r">>,
    <<"l", "i", "m", "i", "t">>,
    <<"o", "f", "f", "s", "e", "t">>,
    <<"u4e26", "u3073", "u66ff", "u3048">>,
    <<"u30bd", "u30fc", "u30c8">>,
    <<"u4e0a", "u4f4d">>,
    <<"u4e0b", "u4f4d">>,
    <<"a", "u30e9", "u30f3", "u30af">>,
    <<"b", "u30e9", "u30f3", "u30af">>,
    <<"s", "u30e9", "u30f3", "u30af">>,
    <<"u30b9", "u30c6", "u30fc", "u30b8">>,
    <<"u30d5", "u30a7", "u30fc", "u30ba">>,
    <<"u91d1", "u984d">>,
    <<"u62c5", "u5f53">> }

\* isAnalysisFollowupOnly: riyuu, youin, naze, haikei, kadai, kaizen, teian, tsugi, action, taisaku, uchite, yuusen, houshin, senryaku, dousureba, suisoku, kousatsu, shisa, risk
AnalysisWords ==
  { <<"u7406", "u7531">>,
    <<"u8981", "u56e0">>,
    <<"u306a", "u305c">>,
    <<"u80cc", "u666f">>,
    <<"u8ab2", "u984c">>,
    <<"u6539", "u5584">>,
    <<"u63d0", "u6848">>,
    <<"u6b21">>,
    <<"u30a2", "u30af", "u30b7", "u30e7", "u30f3">>,
    <<"u5bfe", "u7b56">>,
    <<"u6253", "u3061", "u624b">>,
    <<"u512a", "u5148">>,
    <<"u65b9", "u91dd">>,
    <<"u6226", "u7565">>,
    <<"u3069", "u3046", "u3059", "u308c", "u3070">>,
    <<"u63a8", "u6e2c">>,
    <<"u8003", "u5bdf">>,
    <<"u793a", "u5506">>,
    <<"u30ea", "u30b9", "u30af">> }

\* isAnalysisFollowupOnly: sore, sono, kono, jouki, sakki, sakihodo, ima-no, kono-naka-de
DemonstrativeWords ==
  { <<"u305d", "u308c">>,
    <<"u305d", "u306e">>,
    <<"u3053", "u306e">>,
    <<"u4e0a", "u8a18">>,
    <<"u3055", "u3063", "u304d">>,
    <<"u5148", "u307b", "u3069">>,
    <<"u4eca", "u306e">>,
    <<"u3053", "u306e", "u4e2d", "u3067">> }

\* ------------------------------------------------------------------------
\* Instructions and user messages used as inputs
\* ------------------------------------------------------------------------
\* sukoshi migi: a little to the right
h_sukoshiMigi == <<"u5c11", "u3057", "u53f3">>
\* choi migi: a bit to the right
h_choiMigi == <<"u3061", "u3087", "u3044", "u53f3">>
\* yaya migi: slightly to the right
h_yayaMigi == <<"u3084", "u3084", "u53f3">>
\* chuuou ni: centre it
h_chuuouNi == <<"u4e2d", "u592e", "u306b">>
\* right arrow
h_arrowRight == <<"u2192">>
\* sukoshi shita: a little down
h_sukoshiShita == <<"u5c11", "u3057", "u4e0b">>
\* hidari-ue ni: to the top left
h_hidariue == <<"u5de6", "u4e0a", "u306b">>
\* hidari-yose: left aligned
h_hidariYose == <<"u5de6", "u5bc4", "u305b">>
\* mou sukoshi ookiku: a bit bigger
h_mouSukoshiOokiku == <<"u3082", "u3046", "u5c11", "u3057", "u5927", "u304d", "u304f">>
\* motto chiisaku: smaller still
h_mottoChiisaku == <<"u3082", "u3063", "u3068", "u5c0f", "u3055", "u304f">>
\* chiisame: smallish
h_chiisame == <<"u5c0f", "u3055", "u3081">>
\* tokudai: extra large
h_tokudai == <<"u7279", "u5927">>
\* aka moji: red letters
h_akamoji == <<"u8d64", "u6587", "u5b57">>
\* minchou: Mincho typeface
h_minchou == <<"u660e", "u671d">>
\* futoji: bold
h_futoji == <<"u592a", "u5b57">>
\* futoji kaijo: bold off
h_futojiKaijo == <<"u592a", "u5b57", "u89e3", "u9664">>
\* shatai: italic
h_shatai == <<"u659c", "u4f53">>
\* iro wo aka ni henkou shite: change the colour to red
um_iroHenkou == <<"u8272", "u3092", "u8d64", "u306b", "u5909", "u66f4", "u3057", "u3066">>
\* moji wo kakikaete: rewrite the text
um_mojiKakikae == <<"u6587", "u5b57", "u3092", "u66f8", "u304d", "u63db", "u3048", "u3066">>
\* sukoshi migi ni: a little to the right
um_sukoshiMigi == <<"u5c11", "u3057", "u53f3", "u306b">>
\* irete: put it in
um_ireteKudasai == <<"u5165", "u308c", "u3066">>

\* ------------------------------------------------------------------------
\* CRM follow-up classifier
\* ------------------------------------------------------------------------
FollowupMaxLength == 40

\* the classifier with the analytical-vocabulary rule tried before the
\* data-pull and re-query rules
isAnalysisFollowupOnlyAnalysisFirst(userMessage) ==
  LET s == trim(userMessage) IN
  IF s = <<>> THEN FALSE
  ELSE IF includesAny(s, AnalysisWords) THEN TRUE
  ELSE IF includesAny(s, DataPullWords) THEN FALSE
  ELSE IF includesAny(toLowerCase(s), RequeryWords) THEN FALSE
  ELSE IF startsWithAny(s, DemonstrativeWords) /\ Len(s) <= FollowupMaxLength THEN TRUE
  ELSE FALSE

isAnalysisFollowupOnly(userMessage) ==
  LET s == trim(userMessage) IN
  IF s = <<>> THEN FALSE
  ELSE IF includesAny(s, DataPullWords) THEN FALSE
  ELSE IF includesAny(toLowerCase(s), RequeryWords) THEN FALSE
  ELSE IF includesAny(s, AnalysisWords) THEN TRUE
  ELSE IF startsWithAny(s, DemonstrativeWords) /\ Len(s) <= FollowupMaxLength THEN TRUE
  ELSE FALSE

\* the two documented examples
\* anken no kingaku wo oshiete: tell me the amount of the deal
m_ankenKingaku == <<"u6848", "u4ef6", "u306e", "u91d1", "u984d", "u3092", "u6559", "u3048", "u3066">>
\* sono riyuu wa?: what is the reason for that?
m_sonoRiyuu == <<"u305d", "u306e", "u7406", "u7531", "u306f", "uff1f">>

\* fragments the classified messages are built from
\* anken: deal (a data-pull noun)
f_anken == <<"u6848", "u4ef6">>
\* kingaku: amount (re-query vocabulary)
f_kingaku == <<"u91d1", "u984d">>
\* oshiete: tell me (re-query vocabulary)
f_oshiete == <<"u6559", "u3048", "u3066">>
\* riyuu: reason (analytical vocabulary)
f_riyuu == <<"u7406", "u7531">>
\* sono: that (a demonstrative)
f_sono == <<"u305d", "u306e">>
\* kono naka de: among these (a demonstrative)
f_konoNakaDe == <<"u3053", "u306e", "u4e2d", "u3067">>
\* wa?: the question ending
f_wa == <<"u306f", "uff1f">>
\* no: particle
f_no == <<"u306e">>
\* wo: particle
f_wo == <<"u3092">>
\* nineteen characters of filler
f_filler == <<"u3042", "u3042", "u3042", "u3042", "u3042", "u3042", "u3042", "u3042", "u3042", "u3042", "u3042", "u3042", "u3042", "u3042", "u3042", "u3042", "u3042", "u3042", "u3042">>
f_space == <<" ">>
f_OR == <<"O", "R">>

Fragments ==
  { f_anken, f_kingaku, f_oshiete, f_riyuu, f_sono, f_konoNakaDe, f_wa, f_no,
    f_wo, f_filler, f_space, f_OR }

MaxFrags == 3

RECURSIVE concat(_)
concat(ss) == IF ss = <<>> THEN <<>> ELSE Head(ss) \o concat(Tail(ss))

\* the messages of up to MaxFrags fragments
ClassifierMessages ==
  {concat(fs) : fs \in UNION {[1..n -> Fragments] : n \in 0..MaxFrags}}
  \cup {m_ankenKingaku, m_sonoRiyuu}

\* ------------------------------------------------------------------------
\* Style hint parser
\* ------------------------------------------------------------------------
BottomMarginPx == 80
NudgeX == 80
NudgeY == 60

\* StyleParams with no field set: the result for a missing or empty hint
EmptyStyleParams ==
  [font |-> None, size |-> None, sizeAdjust |-> None, align |-> None,
   vAlign |-> None, bottomMargin |-> None, offsetX |-> None,
   offsetY |-> None, color |-> None]

\* the absolute size chain (first match wins)
parseSize(s) ==
  IF includesAny(s, SizeXlargeWords) THEN Some("xlarge")
  ELSE IF includesAny(s, SizeLargeWords) THEN Some("large")
  ELSE IF includesAny(s, SizeSmallWords) THEN Some("small")
  ELSE IF includesAny(s, SizeMediumWords) THEN Some("medium")
  ELSE None

parseSizeAdjust(s) ==
  IF includesAny(s, LargerWords) THEN Some("larger")
  ELSE IF includesAny(s, SmallerWords) THEN Some("smaller")
  ELSE None

\* vertical words, then the four corners, each later match overwriting
parseVAlign(s) ==
  LET v1 == IF includesAny(s, BottomWords) THEN Some("bottom") ELSE None
      v2 == IF includesAny(s, TopWords) THEN Some("top") ELSE v1
      v3 == IF v2 = None /\ includesAny(s, MiddleWords) THEN Some("middle") ELSE v2
      v4 == IF includes(s, w_hidariue) THEN Some("top") ELSE v3
      v5 == IF includes(s, w_migiue) THEN Some("top") ELSE v4
      v6 == IF includes(s, w_hidarishita) THEN Some("bottom") ELSE v5
      v7 == IF includes(s, w_migishita) THEN Some("bottom") ELSE v6
  IN v7

parseBottomMargin(s) ==
  IF \/ includesAny(s, BottomWords)
     \/ includes(s, w_hidarishita)
     \/ includes(s, w_migishita)
  THEN Some(BottomMarginPx) ELSE None

\* the four corners first, then left / right / centre when no corner matched
parseAlign(s) ==
  LET a1 == IF includes(s, w_hidariue) THEN Some("left") ELSE None
      a2 == IF includes(s, w_migiue) THEN Some("right") ELSE a1
      a3 == IF includes(s, w_hidarishita) THEN Some("left") ELSE a2
      a4 == IF includes(s, w_migishita) THEN Some("right") ELSE a3
      centred == includes(s, w_chuuou) \/ includes(s, w_mannaka)
  IN IF a4 /= None THEN a4
     ELSE IF includesAny(s, LeftWords) \/ (includes(s, w_hidari) /\ ~centred)
       THEN Some("left")
     ELSE IF includesAny(s, RightWords) \/ (includes(s, w_migi) /\ ~centred)
       THEN Some("right")
     ELSE IF includesAny(s, CenterWords) THEN Some("center")
     ELSE None

\* verbal nudges and arrows add up; the offset is set only when one matched
parseOffsetX(s) ==
  LET r1 == includesAny(s, NudgeRightWords)
      l1 == includesAny(s, NudgeLeftWords)
      r2 == includesAny(s, ArrowRightWords)
      l2 == includesAny(s, ArrowLeftWords)
      n(b) == IF b THEN 1 ELSE 0
  IN IF r1 \/ l1 \/ r2 \/ l2
     THEN Some(NudgeX * (n(r1) - n(l1) + n(r2) - n(l2)))
     ELSE None

parseOffsetY(s) ==
  LET u1 == includesAny(s, NudgeUpWords)
      d1 == includesAny(s, NudgeDownWords)
      u2 == includesAny(s, ArrowUpWords)
      d2 == includesAny(s, ArrowDownWords)
      n(b) == IF b THEN 1 ELSE 0
  IN IF u1 \/ d1 \/ u2 \/ d2
     THEN Some(NudgeY * (n(d1) - n(u1) + n(d2) - n(u2)))
     ELSE None

\* the font names the parser produces
FontMeiryo == <<"M", "e", "i", "r", "y", "o">>
FontYuGothic == <<"Y", "u", " ", "G", "o", "t", "h", "i", "c">>
FontYuMincho == <<"Y", "u", " ", "M", "i", "n", "c", "h", "o">>
FontComicSans == <<"C", "o", "m", "i", "c", " ", "S", "a", "n", "s", " ", "M", "S">>

parseFont(s) ==
  LET f1 == IF includes(s, w_meiryo) THEN Some(FontMeiryo) ELSE None
      f2 == IF includesAny(s, YuGothicWords) THEN Some(FontYuGothic) ELSE f1
      f3 == IF includes(s, w_goshikku) THEN Some(FontYuGothic) ELSE f2
      f4 == IF includes(s, w_minchou) THEN Some(FontYuMincho) ELSE f3
      f5 == IF includesAny(s, HandwritingWords) THEN Some(FontComicSans) ELSE f4
  IN f5

parseColor(s) ==
  LET c1 == IF includesAny(s, WhiteWords) THEN Some("#ffffff") ELSE None
      c2 == IF includesAny(s, BlackWords) THEN Some("#000000") ELSE c1
      c3 == IF includesAny(s, RedWords) THEN Some("red") ELSE c2
      c4 == IF includesAny(s, BlueWords) THEN Some("blue") ELSE c3
      c5 == IF includesAny(s, YellowWords) THEN Some("yellow") ELSE c4
  IN c5

parseStyleHint(styleHint) ==
  IF styleHint = <<>> THEN EmptyStyleParams
  ELSE LET s == toLowerCase(removeWhitespace(styleHint)) IN
       [font |-> parseFont(s), size |-> parseSize(s),
        sizeAdjust |-> parseSizeAdjust(s), align |-> parseAlign(s),
        vAlign |-> parseVAlign(s), bottomMargin |-> parseBottomMargin(s),
        offsetX |-> parseOffsetX(s), offsetY |-> parseOffsetY(s),
        color |-> parseColor(s)]

\* ------------------------------------------------------------------------
\* History sanitizer
\* ------------------------------------------------------------------------
\* A message is [role, content, tool_calls, tool_call_id]: content is absent
\* or a string, written as a sequence of chunks; tool_calls is absent or the
\* sequence of the calls' ids ("" for a call without an id); tool_call_id is
\* absent or an id ("" for an empty one).
Msg(role, content, tool_calls, tool_call_id) ==
  [role |-> role, content |-> content, tool_calls |-> tool_calls,
   tool_call_id |-> tool_call_id]

\* chunks of message content the sanitizer looks for
JsonFence == "JSON_FENCE"
SfJsonLead == "SF_JSON_LEAD"
SfErrorLead == "SF_ERROR_LEAD"

\* new Set(m.tool_calls.map(tc => tc?.id).filter(Boolean))
toolCallIds(tool_calls) ==
  {tool_calls[i] : i \in 1..Len(tool_calls)} \ {""}

\* the loop without the reset of the pending id set on a user or system turn
RECURSIVE fixOrphanLoopNoReset(_, _, _, _)
fixOrphanLoopNoReset(messages, i, out, lastAssistantToolIds) ==
  IF i > Len(messages) THEN out
  ELSE LET m == messages[i] IN
    IF m.role = "assistant" THEN
      IF IsSome(m.tool_calls) /\ Len(Get(m.tool_calls)) > 0
      THEN fixOrphanLoopNoReset(messages, i + 1, Append(out, m),
                                Some(toolCallIds(Get(m.tool_calls))))
      ELSE fixOrphanLoopNoReset(messages, i + 1,
                                Append(out, [m EXCEPT !.tool_calls = None]), None)
    ELSE IF m.role = "tool" THEN
      IF /\ IsSome(lastAssistantToolIds)
         /\ IsSome(m.tool_call_id) /\ Get(m.tool_call_id) /= ""
         /\ Get(m.tool_call_id) \in Get(lastAssistantToolIds)
      THEN fixOrphanLoopNoReset(messages, i + 1, Append(out, m), lastAssistantToolIds)
      ELSE fixOrphanLoopNoReset(messages, i + 1, out, lastAssistantToolIds)
    ELSE fixOrphanLoopNoReset(messages, i + 1, Append(out, m), lastAssistantToolIds)

\* the loop of fixOrphanToolsInline from message i on; out is the output so
\* far and lastAssistantToolIds the pending id set (None for null)
RECURSIVE fixOrphanLoop(_, _, _, _)
fixOrphanLoop(messages, i, out, lastAssistantToolIds) ==
  IF i > Len(messages) THEN out
  ELSE LET m == messages[i] IN
    IF m.role = "assistant" THEN
      IF IsSome(m.tool_calls) /\ Len(Get(m.tool_calls)) > 0
      THEN fixOrphanLoop(messages, i + 1, Append(out, m),
                         Some(toolCallIds(Get(m.tool_calls))))
      ELSE fixOrphanLoop(messages, i + 1,
                         Append(out, [m EXCEPT !.tool_calls = None]), None)
    ELSE IF m.role = "tool" THEN
      IF /\ IsSome(lastAssistantToolIds)
         /\ IsSome(m.tool_call_id) /\ Get(m.tool_call_id) /= ""
         /\ Get(m.tool_call_id) \in Get(lastAssistantToolIds)
      THEN fixOrphanLoop(messages, i + 1, Append(out, m), lastAssistantToolIds)
      ELSE fixOrphanLoop(messages, i + 1, out, lastAssistantToolIds)
    ELSE fixOrphanLoop(messages, i + 1, Append(out, m), None)

fixOrphanToolsInline(messages) == fixOrphanLoop(messages, 1, <<>>, None)

\* the filter also dropping the turns whose content is the empty string
sanitizeKeepsNonEmpty(m) ==
  /\ m.role /= "function"
  /\ m.content /= Some(<<>>)
  /\ ~(m.role = "tool" /\ (m.tool_call_id = None \/ m.tool_call_id = Some("")))
  /\ ~(/\ m.role = "system"
       /\ LET c == OrElse(m.content, <<>>) IN
            \/ includes(c, <<JsonFence>>)
            \/ includes(c, <<SfJsonLead>>)
            \/ includes(c, <<SfErrorLead>>))

\* the filter predicate of sanitizeHistory
sanitizeKeeps(m) ==
  /\ m.role /= "function"
  /\ ~(m.role = "tool" /\ (m.tool_call_id = None \/ m.tool_call_id = Some("")))
  /\ ~(/\ m.role = "system"
       /\ LET c == OrElse(m.content, <<>>) IN
            \/ includes(c, <<JsonFence>>)
            \/ includes(c, <<SfJsonLead>>)
            \/ includes(c, <<SfErrorLead>>))

\* the map step also emptying the content of the tool turns
sanitizeHistoryClearing(history) ==
  LET kept == SelectSeq(history, sanitizeKeeps) IN
  [i \in 1..Len(kept) |->
     IF kept[i].content = None \/ kept[i].role = "tool"
     THEN [kept[i] EXCEPT !.content = Some(<<>>)]
     ELSE kept[i]]

sanitizeHistory(history) ==
  LET kept == SelectSeq(history, sanitizeKeeps) IN
  [i \in 1..Len(kept) |->
     IF kept[i].content = None THEN [kept[i] EXCEPT !.content = Some(<<>>)]
     ELSE kept[i]]

\* the messages the explored histories are built from
SanMessages ==
  { Msg("user", Some(<<"text">>), None, None),
    Msg("system", Some(<<"text">>), None, None),
    Msg("system", Some(<<SfJsonLead, JsonFence, "rows">>), None, None),
    Msg("system", Some(<<SfErrorLead, "detail">>), None, None),
    Msg("function", Some(<<"text">>), None, None),
    Msg("assistant", Some(<<"text">>), None, None),
    Msg("assistant", Some(<<"text">>), Some(<<>>), None),
    Msg("assistant", None, Some(<<"a">>), None),
    Msg("assistant", None, Some(<<"a", "b">>), None),
    Msg("assistant", None, Some(<<"">>), None),
    Msg("tool", Some(<<"text">>), None, None),
    Msg("tool", Some(<<"text">>), None, Some("")),
    Msg("tool", Some(<<"text">>), None, Some("a")),
    Msg("tool", None, None, Some("b")) }

MaxHist == 4

Histories == UNION {[1..n -> SanMessages] : n \in 0..MaxHist}

\* ------------------------------------------------------------------------
\* Layout memory and the overlay resolver
\* ------------------------------------------------------------------------
\* Map.prototype.get / set / delete on a map kept as a function whose domain
\* is the set of keys present
mapGet(m, k) == IF k \in DOMAIN m THEN Some(m[k]) ELSE None
mapSet(m, k, v) == [x \in DOMAIN m \cup {k} |-> IF x = k THEN v ELSE m[x]]
\* Map.prototype.clear in place of delete
mapDeleteAll(m, k) == <<>>
mapDelete(m, k) == [x \in DOMAIN m \ {k} |-> m[x]]

sizeOrder == <<"small", "medium", "large", "xlarge">>

\* Array.prototype.indexOf, 0-based, -1 when absent
indexOf(arr, v) ==
  IF \E i \in 1..Len(arr) : arr[i] = v
  THEN (CHOOSE i \in 1..Len(arr) : arr[i] = v /\ \A j \in 1..(i - 1) : arr[j] /= v) - 1
  ELSE -1

\* styleHint || userMessage || ""
hintSourceOf(args, userMessage) ==
  IF trim(args.styleHint) /= <<>> THEN trim(args.styleHint) ELSE userMessage

\* the text-change marker test on the lower-cased user message
isExplicitChange(userMessage) ==
  includesAny(toLowerCase(userMessage), ExplicitChangeWords)

\* (styleHint + " " + args.font + " " + parsed.font).toLowerCase()
fontHintOf(args, parsed) ==
  toLowerCase(trim(args.styleHint) \o <<" ">> \o OrElse(args.font, <<>>)
              \o <<" ">> \o OrElse(parsed.font, <<>>))

\* the font family the hint names, if any
fontFamilyOf(fontHint) ==
  IF includesAny(fontHint, FontMinchoWords) THEN Some("mincho")
  ELSE IF includesAny(fontHint, FontMeiryoWords) THEN Some("meiryo")
  ELSE IF includesAny(fontHint, FontGothicWords) THEN Some("gothic")
  ELSE None

boldOffOf(hintSource) ==
  \/ includesAny(hintSource, BoldOffWords)
  \/ includesAny(toLowerCase(hintSource), BoldOffLowerWords)

boldOnOf(hintSource) ==
  \/ includesAny(hintSource, BoldOnWords)
  \/ includesAny(toLowerCase(hintSource), BoldOnLowerWords)

italicOffOf(hintSource) ==
  \/ includesAny(hintSource, ItalicOffWords)
  \/ includesAny(toLowerCase(hintSource), ItalicOffLowerWords)

italicOnOf(hintSource) ==
  \/ includesAny(hintSource, ItalicOnWords)
  \/ includesAny(toLowerCase(hintSource), ItalicOnLowerWords)

positionSpecifiedOf(parsed, hintSource) ==
  \/ IsSome(parsed.align)
  \/ IsSome(parsed.vAlign)
  \/ includesAny(hintSource, PositionWords)

\* the locals of executeAddTextToExistingImage that depend on the call's
\* arguments and the turn's user message alone
localsOf(args, userMessage) ==
  LET hintSource == hintSourceOf(args, userMessage)
      parsed == parseStyleHint(hintSource)
  IN [text |-> trim(args.text),
      hintSource |-> hintSource,
      parsed |-> parsed,
      isExplicitChange |-> isExplicitChange(userMessage),
      hintedFontFamily |-> fontFamilyOf(fontHintOf(args, parsed)),
      boldOff |-> boldOffOf(hintSource),
      boldOn |-> boldOnOf(hintSource),
      italicOff |-> italicOffOf(hintSource),
      italicOn |-> italicOnOf(hintSource),
      positionSpecified |-> positionSpecifiedOf(parsed, hintSource),
      deltaOffsetX |-> OrElse(parsed.offsetX, 0) + OrElse(args.offsetX, 0),
      deltaOffsetY |-> OrElse(parsed.offsetY, 0) + OrElse(args.offsetY, 0)]

\* text content taken from the arguments, without the preservation rule
resolveTextAsSupplied(loc, last) == loc.text

\* text content: the previous text is kept unless the change is explicit
resolveText(loc, last) ==
  IF IsSome(last) /\ Get(last).text /= <<>> /\ loc.text /= Get(last).text
     /\ ~loc.isExplicitChange
  THEN Get(last).text
  ELSE loc.text

\* horizontal alignment falling back to the default, not the stored value
resolveAlignDefault(parsed, last) ==
  IF IsSome(parsed.align) THEN Get(parsed.align) ELSE "center"

resolveAlign(parsed, last) ==
  IF IsSome(parsed.align) THEN Get(parsed.align)
  ELSE IF IsSome(last) THEN Get(last).align ELSE "center"

\* vertical alignment falling back to the default, not the stored value
resolveVAlignDefault(parsed, last) ==
  IF IsSome(parsed.vAlign) THEN Get(parsed.vAlign) ELSE "middle"

resolveVAlign(parsed, last) ==
  IF IsSome(parsed.vAlign) THEN Get(parsed.vAlign)
  ELSE IF IsSome(last) THEN Get(last).vAlign ELSE "middle"

\* the size bucket with the parsed absolute size tried before the argument
baseSizeParsedFirst(args, parsed, last) ==
  IF IsSome(parsed.size) THEN Get(parsed.size)
  ELSE IF IsSome(args.size) THEN Get(args.size)
  ELSE IF IsSome(last) THEN Get(last).size
  ELSE "large"

\* the size bucket before the relative adjustment
baseSize(args, parsed, last) ==
  IF IsSome(args.size) THEN Get(args.size)
  ELSE IF IsSome(parsed.size) THEN Get(parsed.size)
  ELSE IF IsSome(last) THEN Get(last).size
  ELSE "large"

\* the step with the lower clamp one position too high
adjustSizeClampedEarly(size, sizeAdjust) ==
  LET currentIndex == indexOf(sizeOrder, size) IN
  IF sizeAdjust = Some("larger")
  THEN IF currentIndex >= 0 /\ currentIndex < Len(sizeOrder) - 1
       THEN sizeOrder[currentIndex + 2] ELSE size
  ELSE IF sizeAdjust = Some("smaller")
  THEN IF currentIndex > 1 THEN sizeOrder[currentIndex] ELSE size
  ELSE size

\* one step along sizeOrder, clamped; a size outside sizeOrder is left alone
adjustSize(size, sizeAdjust) ==
  LET currentIndex == indexOf(sizeOrder, size) IN
  IF sizeAdjust = Some("larger")
  THEN IF currentIndex >= 0 /\ currentIndex < Len(sizeOrder) - 1
       THEN sizeOrder[currentIndex + 2] ELSE size
  ELSE IF sizeAdjust = Some("smaller")
  THEN IF currentIndex > 0 THEN sizeOrder[currentIndex] ELSE size
  ELSE size

resolveSize(args, parsed, last) ==
  adjustSize(baseSize(args, parsed, last), parsed.sizeAdjust)

resolveColor(args, parsed, last) ==
  IF IsSome(args.color) THEN Get(args.color)
  ELSE IF IsSome(parsed.color) THEN Get(parsed.color)
  ELSE IF IsSome(last) THEN Get(last).color
  ELSE "white"

resolveFontFamily(loc, last) ==
  IF IsSome(loc.hintedFontFamily) THEN Get(loc.hintedFontFamily)
  ELSE IF IsSome(last) THEN Get(last).fontFamily ELSE "gothic"

resolveBold(loc, last) ==
  IF loc.boldOff THEN FALSE
  ELSE IF loc.boldOn THEN TRUE
  ELSE IF IsSome(last) THEN Get(last).bold ELSE FALSE

resolveItalic(loc, last) ==
  IF loc.italicOff THEN FALSE
  ELSE IF loc.italicOn THEN TRUE
  ELSE IF IsSome(last) THEN Get(last).italic ELSE FALSE

\* the horizontal offset kept when the instruction restates the stored alignment
resolveOffsetXKeptOnRestate(loc, last) ==
  LET restated == IsSome(last) /\ loc.parsed.align = Some(Get(last).align)
      baseOffsetX == IF loc.positionSpecified /\ ~restated THEN 0
                     ELSE IF IsSome(last) THEN Get(last).offsetX ELSE 0
  IN baseOffsetX + loc.deltaOffsetX

resolveOffsetX(loc, last) ==
  LET baseOffsetX == IF loc.positionSpecified THEN 0
                     ELSE IF IsSome(last) THEN Get(last).offsetX ELSE 0
  IN baseOffsetX + loc.deltaOffsetX

resolveOffsetY(loc, last) ==
  LET baseOffsetY == IF loc.positionSpecified THEN 0
                     ELSE IF IsSome(last) THEN Get(last).offsetY ELSE 0
  IN baseOffsetY + loc.deltaOffsetY

\* the TextLayout written to layout memory and sent to the composition service
resolveLayout(args, loc, last) ==
  [align |-> resolveAlign(loc.parsed, last),
   vAlign |-> resolveVAlign(loc.parsed, last),
   offsetX |-> resolveOffsetX(loc, last),
   offsetY |-> resolveOffsetY(loc, last),
   size |-> resolveSize(args, loc.parsed, last),
   text |-> resolveText(loc, last),
   color |-> resolveColor(args, loc.parsed, last),
   fontFamily |-> resolveFontFamily(loc, last),
   bold |-> resolveBold(loc, last),
   italic |-> resolveItalic(loc, last)]

\* ------------------------------------------------------------------------
\* Inputs of the image tools
\* ------------------------------------------------------------------------
\* the prompt length from which create_img rejects the prompt
MaxPromptLength == 4000

Args(text, styleHint, font, color, size, offsetX, offsetY) ==
  [imageUrl |-> "image-url", text |-> text, styleHint |-> styleHint,
   font |-> font, color |-> color, size |-> size,
   offsetX |-> offsetX, offsetY |-> offsetY]

\* a call that passes only the text and a style hint
Plain(text, styleHint) == Args(text, styleHint, None, None, None, None, None)

TextA == <<"A">>
TextB == <<"B">>
TextPaddedA == <<" ", "A", " ">>
Blank == <<" ">>

MaxOffsetSteps == 2

UserMessages == { <<>>, um_iroHenkou, um_mojiKakikae, um_sukoshiMigi, um_ireteKudasai }

\* instructions about the position, with and without caller-supplied offsets
PositionInputs ==
  {[args |-> Plain(TextA, h), userMessage |-> um_ireteKudasai] :
      h \in { <<>>, h_sukoshiMigi, h_choiMigi, h_yayaMigi, h_chuuouNi,
              h_arrowRight, h_sukoshiShita, h_hidariue, h_hidariYose }}
  \cup {[args |-> Args(TextA, h, None, None, None, x, y),
         userMessage |-> um_ireteKudasai] :
      h \in {<<>>, h_sukoshiMigi, h_chuuouNi},
      x \in {None, Some(NudgeX)}, y \in {None, Some(NudgeY)}}

\* calls that supply a text, with and without a style hint, in turns whose
\* user message does or does not ask for a change
TextInputs ==
  {[args |-> Plain(t, h), userMessage |-> um] :
      t \in {TextA, TextB, TextPaddedA, Blank, <<>>}, h \in {<<>>, h_akamoji},
      um \in UserMessages}

\* instructions about size, colour, typeface and emphasis, with and without
\* the caller-supplied size, font and colour arguments
StyleInputs ==
  {[args |-> Plain(TextA, h), userMessage |-> um_ireteKudasai] :
      h \in { <<>>, h_mouSukoshiOokiku, h_mottoChiisaku, h_chiisame, h_tokudai,
              h_akamoji, h_minchou, h_futoji, h_futojiKaijo, h_shatai }}
  \cup {[args |-> Args(TextA, h, None, None, Some(s), None, None),
         userMessage |-> um_ireteKudasai] :
      h \in {<<>>, h_tokudai, h_mouSukoshiOokiku, h_mottoChiisaku},
      s \in {"small", "xlarge", "huge"}}
  \cup {[args |-> Args(TextA, h, f, c, None, None, None),
         userMessage |-> um_ireteKudasai] :
      h \in {<<>>, h_akamoji, h_minchou},
      f \in {None, Some(<<"M", "e", "i", "r", "y", "o">>)},
      c \in {None, Some("blue")}}

\* nudges to the right and re-centring, for the runs of consecutive edits
NudgeInputs ==
  {[args |-> Plain(TextA, h), userMessage |-> um_ireteKudasai] :
      h \in { h_sukoshiMigi, h_choiMigi, h_yayaMigi, h_chuuouNi, h_arrowRight }}

MaxLog == 3

\* the instruction vocabularies; the edits of one behaviour are drawn from one
Vocabularies == {"position", "text", "style"}
EditInputs ==
  [v \in Vocabularies |->
     CASE v = "position" -> PositionInputs
       [] v = "text" -> TextInputs
       [] v = "style" -> StyleInputs]

Prompts == { <<>>, Blank, <<"p">>, [i \in 1..MaxPromptLength |-> "x"] }
ImageConfigs == {"ok", "bad_endpoint", "no_api_key", "no_deployment"}
GenerationOutcomes == {"throw", "http_error", "invalid_json", "no_data", "url", "b64"}
CompositionOutcomes == {"throw", "http_error", "no_image_url", "read_failed", "ok"}

\* the locals of every call the specifications issue, computed once
AllEditInputs == UNION {EditInputs[v] : v \in Vocabularies} \cup NudgeInputs

LocalsMemo == [in \in AllEditInputs |-> localsOf(in.args, in.userMessage)]

locals(args, userMessage) ==
  LET in == [args |-> args, userMessage |-> userMessage] IN
  IF in \in DOMAIN LocalsMemo THEN LocalsMemo[in] ELSE localsOf(args, userMessage)

\* ------------------------------------------------------------------------
\* Chat turn: ChatAPIEntry and the generators it dispatches to
\* ------------------------------------------------------------------------
\* the CRM extension id compiled into chat-api-extension.ts
SfExtensionId == "46b6Cn4aU3Wjq9o0SPvl4h5InX83YH70uRkf"

\* hasSfExtension of chat-api-extension.ts
hasSfExtension(chatThread) ==
  \E i \in 1..Len(chatThread.extension) : chatThread.extension[i] = SfExtensionId

\* --- the model ChatApiExtensions uses ---
\* the built-in fallback model name
FallbackModel == <<"g", "p", "t", "-", "5">>

\* x?.trim() || ... : the trimmed value, empty (falsy) for an unset one
trimmed(value) == IF value = None THEN <<>> ELSE trim(Get(value))

\* a || b || ... : the first non-empty value of a chain, empty if none
RECURSIVE firstTruthy(_)
firstTruthy(values) ==
  IF values = <<>> THEN <<>>
  ELSE IF Head(values) /= <<>> THEN Head(values)
  ELSE firstTruthy(Tail(values))

\* the specialized model preferred on every thread, CRM or not
resolveModelPreferringSoql(chatThread, env) ==
  LET defaultModel ==
        firstTruthy(<<trimmed(chatThread.model),
                      trimmed(env.OPENAI_CHAT_MODEL),
                      trimmed(env.AZURE_OPENAI_CHAT_MODEL),
                      trimmed(env.OPENAI_MODEL),
                      trimmed(env.AZURE_OPENAI_MODEL),
                      FallbackModel>>)
      sfOrchestratorModel ==
        firstTruthy(<<trimmed(env.AZURE_OPENAI_SOQL_CHAT_MODEL),
                      trimmed(env.AZURE_OPENAI_SOQL_MODEL)>>)
  IN IF sfOrchestratorModel /= <<>> THEN sfOrchestratorModel ELSE defaultModel

resolveModelForExtensions(chatThread, env) ==
  LET defaultModel ==
        firstTruthy(<<trimmed(chatThread.model),
                      trimmed(env.OPENAI_CHAT_MODEL),
                      trimmed(env.AZURE_OPENAI_CHAT_MODEL),
                      trimmed(env.OPENAI_MODEL),
                      trimmed(env.AZURE_OPENAI_MODEL),
                      FallbackModel>>)
      sfOrchestratorModel ==
        firstTruthy(<<trimmed(env.AZURE_OPENAI_SOQL_CHAT_MODEL),
                      trimmed(env.AZURE_OPENAI_SOQL_MODEL)>>)
  IN IF hasSfExtension(chatThread) /\ sfOrchestratorModel /= <<>>
     THEN sfOrchestratorModel
     ELSE defaultModel

\* thread-level overrides and environment settings: unset, blank, or a name
\* (some with blanks around it)
ThreadModels == { None, Some(<<" ">>), Some(<<" ", "T">>) }
ModelEnvs ==
  [OPENAI_CHAT_MODEL : { None, Some(<<" ">>), Some(<<"A">>) },
   AZURE_OPENAI_CHAT_MODEL : { None, Some(<<"B">>) },
   OPENAI_MODEL : { None, Some(<<"C", " ">>) },
   AZURE_OPENAI_MODEL : { None, Some(<<"D">>) },
   AZURE_OPENAI_SOQL_CHAT_MODEL : { None, Some(<<" ">>), Some(<<"S">>) },
   AZURE_OPENAI_SOQL_MODEL : { None, Some(<<"Q">>) }]

\* the CRM test of _getExtensions never recognising the thread
getExtensionsNeverSf(chatThread, envSfExtensionId) == FALSE

\* hasSfExtension as _getExtensions computes it, against the configured id
getExtensionsHasSf(chatThread, envSfExtensionId) ==
  \E i \in 1..Len(chatThread.extension) : chatThread.extension[i] = envSfExtensionId

\* the two built-in image tools GetDefaultExtensions returns
DefaultExtensions == <<"create_img", "add_text_to_existing_image">>

\* the part of a tools response _getExtensions appends to its list
foundTools(toolsResponse) ==
  IF toolsResponse.status = "OK" /\ Len(toolsResponse.response) > 0
  THEN toolsResponse.response ELSE <<>>

\* the tool list emptied as soon as one of the two sources fails
getExtensionsAllOrNothing(chatThread, envSfExtensionId, defaultResponse, dynamicResponse) ==
  IF dynamicResponse.status /= "OK"
     \/ (~getExtensionsHasSf(chatThread, envSfExtensionId) /\ defaultResponse.status /= "OK")
  THEN <<>>
  ELSE (IF getExtensionsHasSf(chatThread, envSfExtensionId) THEN <<>>
        ELSE foundTools(defaultResponse)) \o foundTools(dynamicResponse)

\* the tool list _getExtensions returns, given the answers of the default
\* tools (not asked for on a CRM thread) and of the dynamic tools
getExtensions(chatThread, envSfExtensionId, defaultResponse, dynamicResponse) ==
  LET defaults == IF getExtensionsHasSf(chatThread, envSfExtensionId) THEN <<>>
                  ELSE foundTools(defaultResponse)
  IN defaults \o foundTools(dynamicResponse)

\* the strategy chosen with the documents tried before the image attachment
chatTypeOfDocsFirst(multimodalImage, docs, extension) ==
  IF Len(docs) > 0 THEN "chat-with-file"
  ELSE IF IsSome(multimodalImage) /\ Len(Get(multimodalImage)) > 0 THEN "multimodal"
  ELSE "extensions"

\* the strategy chosen from the image attachment, the documents and the tools
chatTypeOf(multimodalImage, docs, extension) ==
  IF IsSome(multimodalImage) /\ Len(Get(multimodalImage)) > 0 THEN "multimodal"
  ELSE IF Len(docs) > 0 THEN "chat-with-file"
  ELSE "extensions"

\* the longest JSON text runSfDirect passes on untruncated
MaxJsonSnippet == 8000

\* the gateway result without the test of the HTTP status
gatewayResultIgnoringStatus(outcome) ==
  CASE outcome.kind = "throw" ->
         [sfError |-> Some(<<"Salesforce gateway request failed: ", "exception">>),
          sfJson |-> None]
    [] outcome.kind = "http" /\ ~outcome.parses ->
         [sfError |-> Some(<<"Failed to parse Salesforce gateway JSON: ", "exception">>),
          sfJson |-> None]
    [] OTHER -> [sfError |-> None, sfJson |-> outcome.json]

\* sfError and sfJson after the gateway request, for each way it can end
gatewayResult(outcome) ==
  CASE outcome.kind = "throw" ->
         [sfError |-> Some(<<"Salesforce gateway request failed: ", "exception">>),
          sfJson |-> None]
    [] outcome.kind = "http" /\ ~outcome.ok ->
         [sfError |-> Some(<<"Salesforce gateway HTTP ", outcome.status, outcome.body>>),
          sfJson |-> None]
    [] outcome.kind = "http" /\ outcome.ok /\ ~outcome.parses ->
         [sfError |-> Some(<<"Failed to parse Salesforce gateway JSON: ", "exception">>),
          sfJson |-> None]
    [] OTHER -> [sfError |-> None, sfJson |-> outcome.json]

\* the snippet made of every parsed value, falsy ones included
jsonSnippetOfAnyValue(sfJson) ==
  IF sfJson = None THEN <<>>
  ELSE IF Get(sfJson).length > MaxJsonSnippet
    THEN <<"json-head", "... (truncated)">>
  ELSE <<"json">>

\* the JSON text put into the directive: empty for a falsy value, cut at
\* MaxJsonSnippet characters
jsonSnippetOf(sfJson) ==
  IF sfJson = None \/ ~Get(sfJson).truthy THEN <<>>
  ELSE IF Get(sfJson).length > MaxJsonSnippet
    THEN <<"json-head", "... (truncated)">>
  ELSE <<"json">>

\* the system directive appended after the user message
sfDirective(sfError, jsonSnippet) ==
  IF IsSome(sfError)
  THEN Msg("system", Some(<<SfErrorLead>> \o Get(sfError)), None, None)
  ELSE IF jsonSnippet /= <<>>
  THEN Msg("system", Some(<<SfJsonLead, JsonFence>> \o jsonSnippet \o <<"FENCE_END">>),
           None, None)
  ELSE Msg("system", Some(<<"SF_NO_VALID_JSON">>), None, None)

systemMessage(kind) == Msg("system", Some(<<kind>>), None, None)
userTurn(userMessage) == Msg("user", Some(userMessage), None, None)

\* --- inputs of a chat turn ---

RouterMessages == { m_ankenKingaku, m_sonoRiyuu, <<>> }
ExtensionLists == { <<>>, <<"ext1">>, <<"ext1", SfExtensionId>> }
ConfiguredSfIds == { SfExtensionId, "" }
ImageAttachments == { None, Some(<<>>), Some(<<"image">>) }
StoredHistories ==
  { <<>>,
    << Msg("user", Some(<<"text">>), None, None),
       Msg("assistant", None, Some(<<"a">>), None),
       Msg("tool", Some(<<"text">>), None, Some("a")) >>,
    << Msg("assistant", None, Some(<<"a">>), None),
       Msg("function", Some(<<"text">>), None, None),
       Msg("tool", Some(<<"text">>), None, Some("a")),
       Msg("system", Some(<<SfJsonLead, JsonFence, "rows">>), None, None) >> }
Response(status, response) == [status |-> status, response |-> response]
DocsResponses == { Response("ERROR", <<>>), Response("OK", <<>>), Response("OK", <<"doc1">>) }
DynamicResponses == { Response("ERROR", <<>>), Response("OK", <<>>), Response("OK", <<"dyn1">>) }
\* GetDefaultExtensions as written answers OK with its two tools; the other
\* answers are the ones its response type allows and _getExtensions handles
DefaultResponses == { Response("OK", DefaultExtensions), Response("OK", <<>>), Response("ERROR", <<>>) }
\* stands for the answer of a default-tools fetch that was not made
NotFetched == Response("NOT_FETCHED", <<>>)
Outcome(kind, ok, status, body, parses, json) ==
  [kind |-> kind, ok |-> ok, status |-> status, body |-> body,
   parses |-> parses, json |-> json]
Json(truthy, length) == Some([truthy |-> truthy, length |-> length])
GatewayOutcomes ==
  { Outcome("throw", FALSE, "", "", FALSE, None),
    Outcome("http", FALSE, "500", "body", FALSE, None),
    Outcome("http", FALSE, "404", "", FALSE, None),
    Outcome("http", TRUE, "200", "", FALSE, None),
    Outcome("http", TRUE, "200", "", TRUE, None),
    Outcome("http", TRUE, "200", "", TRUE, Json(FALSE, 1)),
    Outcome("http", TRUE, "200", "", TRUE, Json(TRUE, 2)),
    Outcome("http", TRUE, "200", "", TRUE, Json(TRUE, MaxJsonSnippet)),
    Outcome("http", TRUE, "200", "", TRUE, Json(TRUE, MaxJsonSnippet + 1)) }

\* ------------------------------------------------------------------------
\* State
\* ------------------------------------------------------------------------
VARIABLES
  clsMsg,                  \* the user message handed to the classifier
  clsOut,                  \* its verdict: "pending", TRUE or FALSE as a string
  sanIn,                   \* the mapped history read from the store
  sanMid,                  \* the history returned by _getHistory
  sanOut,                  \* the history handed to the completion call
  sanPc,                   \* how far the history has been sanitized
  lastTextLayoutByThread,  \* layout memory: thread id -> TextLayout
  calls,                   \* the image tool invocations: slot -> call
  vocabulary,              \* the instruction vocabulary of this behaviour
  editLog,                 \* observer: the overlay edits applied so far
  pc,                      \* where the chat turn stands
  req,                     \* the turn's request: thread, message, attachment
  fetched,                 \* what the parallel fetches have returned so far
  chatType,                \* the strategy chosen
  store,                   \* the thread's recorded turns
  log,                     \* the calls issued from recording the message on
  sf,                      \* sfError and sfJson of the gateway request
  submitted,               \* the completion request handed to the model API
  response,                \* the response returned to the caller
  mdl                      \* ChatApiExtensions seen for the model it uses

sanVars == <<sanIn, sanMid, sanOut, sanPc>>
clsVars == <<clsMsg, clsOut>>
toolVars == <<lastTextLayoutByThread, calls>>
turnVars == <<pc, req, fetched, chatType, store, log, sf, submitted, response>>
vars == <<clsMsg, clsOut, sanIn, sanMid, sanOut, sanPc,
          lastTextLayoutByThread, calls, vocabulary, editLog,
          pc, req, fetched, chatType, store, log, sf, submitted, response, mdl>>

\* ------------------------------------------------------------------------
\* Image tools
\* ------------------------------------------------------------------------
IdleCall ==
  [op |-> "none", phase |-> "idle", thread |-> "", args |-> None,
   userMessage |-> <<>>, last |-> None, sent |-> None, result |-> None]

\* what a tool function returns: a bare string, an object carrying an error
\* field, or an object carrying the image url
StringResult(s) == [type |-> "string", error |-> None, url |-> None, value |-> s]
ErrorResult(e) == [type |-> "object", error |-> Some(e), url |-> None, value |-> ""]
UrlResult(u) == [type |-> "object", error |-> None, url |-> Some(u), value |-> ""]

Done(call, result) ==
  [call EXCEPT !.phase = "done", !.result = Some(result), !.args = None,
               !.userMessage = <<>>, !.last = None]

free(c) == calls[c].phase \in {"idle", "done"}

\* executeCreateImage up to the image generation request
CreateImageBegin(c, t, promptArg, config) ==
  /\ free(c)
  /\ LET prompt == trim(promptArg)
         call == [IdleCall EXCEPT !.op = "create_img", !.thread = t]
     IN calls' = [calls EXCEPT ![c] =
          IF prompt = <<>> THEN Done(call, StringResult("No prompt provided"))
          ELSE IF Len(prompt) >= MaxPromptLength
            THEN Done(call, StringResult("Prompt is too long"))
          ELSE IF config = "bad_endpoint"
            THEN Done(call, ErrorResult("invalid AZURE_OPENAI_ENDPOINT"))
          ELSE IF config = "no_api_key"
            THEN Done(call, ErrorResult("missing AZURE_OPENAI_API_KEY"))
          ELSE IF config = "no_deployment"
            THEN Done(call, ErrorResult("missing AZURE_OPENAI_IMAGE_DEPLOYMENT"))
          ELSE [call EXCEPT !.phase = "generating"]]
  /\ UNCHANGED lastTextLayoutByThread

\* the image generation request returns
CreateImageGenerated(c, outcome) ==
  /\ calls[c].op = "create_img" /\ calls[c].phase = "generating"
  /\ calls' = [calls EXCEPT ![c] =
       CASE outcome = "throw" -> Done(@, ErrorResult("error creating the image"))
         [] outcome = "http_error" -> Done(@, ErrorResult("error creating the image: HTTP"))
         [] outcome = "invalid_json" -> Done(@, ErrorResult("Invalid JSON response"))
         [] outcome = "no_data" -> Done(@, ErrorResult("Invalid API response"))
         [] outcome = "url" -> Done(@, UrlResult("urlDirect"))
         [] outcome = "b64" -> [@ EXCEPT !.phase = "upload_image"]]
  /\ UNCHANGED lastTextLayoutByThread

\* the upload of the image under its unique name returns
CreateImageUploaded(c, ok) ==
  /\ calls[c].op = "create_img" /\ calls[c].phase = "upload_image"
  /\ calls' = [calls EXCEPT ![c] =
       IF ok THEN [@ EXCEPT !.phase = "upload_base"]
       ELSE Done(@, ErrorResult("error storing the image"))]
  /\ UNCHANGED lastTextLayoutByThread

\* the upload as __base__.png returns; on success the thread's layout is
\* cleared and the url returned
CreateImageBaseUploaded(c, ok) ==
  /\ calls[c].op = "create_img" /\ calls[c].phase = "upload_base"
  /\ IF ok
     THEN /\ lastTextLayoutByThread' = mapDelete(lastTextLayoutByThread, calls[c].thread)
          /\ calls' = [calls EXCEPT ![c] = Done(@, UrlResult("stored"))]
     ELSE /\ calls' = [calls EXCEPT ![c] = Done(@, ErrorResult("error storing the image"))]
          /\ UNCHANGED lastTextLayoutByThread

\* the request body posted to the composition service
compositionRequest(layout, bottomMargin) ==
  [imageUrl |-> "__base__.png", text |-> layout.text, align |-> layout.align,
   vAlign |-> layout.vAlign, size |-> layout.size, color |-> layout.color,
   offsetX |-> layout.offsetX, offsetY |-> layout.offsetY,
   bottomMargin |-> bottomMargin, fontFamily |-> layout.fontFamily,
   bold |-> layout.bold, italic |-> layout.italic]

\* the edit resolving against the layout an edit still in flight on the
\* thread had read, as if both had read before either wrote
AddTextBeginStaleRead(c, t, args, userMessage) ==
  /\ free(c)
  /\ LET call == [IdleCall EXCEPT !.op = "add_text", !.thread = t]
         inFlight == {d \in DOMAIN calls : d /= c /\ calls[d].op = "add_text"
                                           /\ calls[d].phase = "composing"
                                           /\ calls[d].thread = t}
         last == IF inFlight /= {} THEN calls[CHOOSE d \in inFlight : TRUE].last
                 ELSE mapGet(lastTextLayoutByThread, t)
         loc == locals(args, userMessage)
         layout == resolveLayout(args, loc, last)
     IN IF loc.text = <<>>
        THEN /\ calls' = [calls EXCEPT ![c] = Done(call, ErrorResult("text is required"))]
             /\ UNCHANGED lastTextLayoutByThread
        ELSE /\ lastTextLayoutByThread' = mapSet(lastTextLayoutByThread, t, layout)
             /\ calls' = [calls EXCEPT ![c] =
                  [call EXCEPT !.phase = "composing", !.args = Some(args),
                               !.userMessage = userMessage, !.last = last,
                               !.sent = Some(compositionRequest(layout, loc.parsed.bottomMargin))]]

\* executeAddTextToExistingImage up to the composition request: validation,
\* resolution against layout memory, write-back, request
AddTextBegin(c, t, args, userMessage) ==
  /\ free(c)
  /\ LET call == [IdleCall EXCEPT !.op = "add_text", !.thread = t]
         last == mapGet(lastTextLayoutByThread, t)
         loc == locals(args, userMessage)
         layout == resolveLayout(args, loc, last)
     IN IF loc.text = <<>>
        THEN /\ calls' = [calls EXCEPT ![c] = Done(call, ErrorResult("text is required"))]
             /\ UNCHANGED lastTextLayoutByThread
        ELSE /\ lastTextLayoutByThread' = mapSet(lastTextLayoutByThread, t, layout)
             /\ calls' = [calls EXCEPT ![c] =
                  [call EXCEPT !.phase = "composing", !.args = Some(args),
                               !.userMessage = userMessage, !.last = last,
                               !.sent = Some(compositionRequest(layout, loc.parsed.bottomMargin))]]

\* the composition's failure undoing the write to layout memory
AddTextComposedRollingBack(c, outcome) ==
  /\ calls[c].op = "add_text" /\ calls[c].phase = "composing"
  /\ calls' = [calls EXCEPT ![c] =
       CASE outcome = "throw" -> Done(@, ErrorResult("error adding text"))
         [] outcome = "http_error" -> Done(@, ErrorResult("Text overlay failed: HTTP"))
         [] outcome = "no_image_url" -> Done(@, ErrorResult("gen-image edit returned no imageUrl"))
         [] outcome = "read_failed" -> Done(@, ErrorResult("error adding text"))
         [] outcome = "ok" -> [@ EXCEPT !.phase = "upload_image"]]
  /\ lastTextLayoutByThread' =
       IF outcome = "ok" THEN lastTextLayoutByThread
       ELSE IF IsSome(calls[c].last)
         THEN mapSet(lastTextLayoutByThread, calls[c].thread, Get(calls[c].last))
       ELSE mapDelete(lastTextLayoutByThread, calls[c].thread)

\* the composition request returns
AddTextComposed(c, outcome) ==
  /\ calls[c].op = "add_text" /\ calls[c].phase = "composing"
  /\ calls' = [calls EXCEPT ![c] =
       CASE outcome = "throw" -> Done(@, ErrorResult("error adding text"))
         [] outcome = "http_error" -> Done(@, ErrorResult("Text overlay failed: HTTP"))
         [] outcome = "no_image_url" -> Done(@, ErrorResult("gen-image edit returned no imageUrl"))
         [] outcome = "read_failed" -> Done(@, ErrorResult("error adding text"))
         [] outcome = "ok" -> [@ EXCEPT !.phase = "upload_image"]]
  /\ UNCHANGED lastTextLayoutByThread

\* the upload of the composed image returns
AddTextUploaded(c, ok) ==
  /\ calls[c].op = "add_text" /\ calls[c].phase = "upload_image"
  /\ calls' = [calls EXCEPT ![c] =
       IF ok THEN Done(@, UrlResult("stored"))
       ELSE Done(@, ErrorResult("error adding text"))]
  /\ UNCHANGED lastTextLayoutByThread

\* the offsets an edit would store stay within the explored range
withinOffsets(t, in) ==
  LET l == resolveLayout(in.args, locals(in.args, in.userMessage),
                         mapGet(lastTextLayoutByThread, t)) IN
  /\ l.offsetX \in (-MaxOffsetSteps * NudgeX)..(MaxOffsetSteps * NudgeX)
  /\ l.offsetY \in (-MaxOffsetSteps * NudgeY)..(MaxOffsetSteps * NudgeY)

\* --- actions of a chat turn ---
NoFetch ==
  [user |-> None, history |-> None, docs |-> None, extension |-> None,
   toolSources |-> None]
NoGateway == [outcome |-> None, sfError |-> None, sfJson |-> None]

\* the failed thread lookup answered with 401 but without the return
EnsureChatThreadNoReturn(ok) ==
  /\ pc = "ensure"
  /\ log' = Append(log, "EnsureChatThreadOperation")
  /\ pc' = "fetch"
  /\ IF ok THEN UNCHANGED response
     ELSE response' = Some([status |-> 401, body |-> "empty"])
  /\ UNCHANGED <<req, fetched, chatType, store, sf, submitted>>

\* EnsureChatThreadOperation returns
EnsureChatThread(ok) ==
  /\ pc = "ensure"
  /\ log' = Append(log, "EnsureChatThreadOperation")
  /\ IF ok THEN pc' = "fetch" /\ UNCHANGED response
     ELSE pc' = "done" /\ response' = Some([status |-> 401, body |-> "empty"])
  /\ UNCHANGED <<req, fetched, chatType, store, sf, submitted>>

\* getCurrentUser resolves
GetCurrentUser ==
  /\ pc = "fetch" /\ fetched.user = None
  /\ fetched' = [fetched EXCEPT !.user = Some("user")]
  /\ log' = Append(log, "getCurrentUser")
  /\ UNCHANGED <<pc, req, chatType, store, sf, submitted, response>>

\* the history read after the user's message was recorded
GetHistoryOfThreadAfterRecord(ok) ==
  /\ pc = "fetch" /\ fetched.history = None
  /\ fetched' = [fetched EXCEPT !.history =
       Some(IF ok THEN fixOrphanToolsInline(Append(store, userTurn(req.message)))
            ELSE <<>>)]
  /\ log' = Append(log, "_getHistory")
  /\ UNCHANGED <<pc, req, chatType, store, sf, submitted, response>>

\* _getHistory resolves: the stored turns, orphan tool turns removed, or
\* nothing when the store reports an error
GetHistoryOfThread(ok) ==
  /\ pc = "fetch" /\ fetched.history = None
  /\ fetched' = [fetched EXCEPT !.history =
       Some(IF ok THEN fixOrphanToolsInline(store) ELSE <<>>)]
  /\ log' = Append(log, "_getHistory")
  /\ UNCHANGED <<pc, req, chatType, store, sf, submitted, response>>

\* _getDocuments resolves
GetDocuments(docsResponse) ==
  /\ pc = "fetch" /\ fetched.docs = None
  /\ fetched' = [fetched EXCEPT !.docs =
       Some(IF docsResponse.status = "OK" THEN docsResponse.response ELSE <<>>)]
  /\ log' = Append(log, "_getDocuments")
  /\ UNCHANGED <<pc, req, chatType, store, sf, submitted, response>>

\* _getExtensions resolves: the default tools are asked for unless the thread
\* is a CRM thread, the dynamic tools always
GetExtensions(defaultResponse, dynamicResponse) ==
  /\ pc = "fetch" /\ fetched.extension = None
  /\ LET hasSf == getExtensionsHasSf(req.chatThread, req.envSfExtensionId) IN
     /\ IF hasSf THEN defaultResponse = NotFetched ELSE defaultResponse \in DefaultResponses
     /\ fetched' = [fetched EXCEPT
          !.extension = Some(getExtensions(req.chatThread, req.envSfExtensionId,
                                           defaultResponse, dynamicResponse)),
          !.toolSources = Some([default |-> defaultResponse, dynamic |-> dynamicResponse])]
     /\ log' = log \o <<"_getExtensions">>
                   \o (IF hasSf THEN <<>> ELSE <<"GetDefaultExtensions">>)
                   \o <<"GetDynamicExtensions">>
  /\ UNCHANGED <<pc, req, chatType, store, sf, submitted, response>>

\* the dispatch reached without the user's message being recorded
RecordUserMessageSkipped ==
  /\ pc = "fetch"
  /\ \A f \in DOMAIN fetched : IsSome(fetched[f])
  /\ chatType' = chatTypeOf(req.multimodalImage, Get(fetched.docs), Get(fetched.extension))
  /\ pc' = "dispatch"
  /\ UNCHANGED <<req, fetched, store, log, sf, submitted, response>>

\* Promise.all has resolved: the strategy is chosen and CreateChatMessage
\* records the user's message
RecordUserMessage ==
  /\ pc = "fetch"
  /\ \A f \in DOMAIN fetched : IsSome(fetched[f])
  /\ chatType' = chatTypeOf(req.multimodalImage, Get(fetched.docs), Get(fetched.extension))
  /\ store' = Append(store, userTurn(req.message))
  /\ log' = Append(log, "CreateChatMessage")
  /\ pc' = "dispatch"
  /\ UNCHANGED <<req, fetched, sf, submitted, response>>

Submit(api, messages, tools) ==
  submitted' = Some([api |-> api, messages |-> messages, tools |-> tools])

\* case "chat-with-file"
StartRAG ==
  /\ pc = "dispatch" /\ chatType = "chat-with-file"
  /\ log' = Append(log, "ChatApiRAG")
  /\ Submit("rag", Get(fetched.history) \o <<userTurn(req.message)>>, <<>>)
  /\ pc' = "respond"
  /\ UNCHANGED <<req, fetched, chatType, store, sf, response>>

\* case "multimodal"
StartMultimodal ==
  /\ pc = "dispatch" /\ chatType = "multimodal"
  /\ log' = Append(log, "ChatApiMultimodal")
  /\ Submit("multimodal", <<userTurn(req.message)>>, <<>>)
  /\ pc' = "respond"
  /\ UNCHANGED <<req, fetched, chatType, store, sf, response>>

\* case "extensions", thread without the CRM extension: runTools
StartExtensions ==
  /\ pc = "dispatch" /\ chatType = "extensions"
  /\ ~hasSfExtension(req.chatThread)
  /\ log' = log \o <<"ChatApiExtensions", "runTools">>
  /\ Submit("runTools",
            <<systemMessage("persona+steps+jst")>>
              \o sanitizeHistory(Get(fetched.history))
              \o <<userTurn(req.message)>>,
            Get(fetched.extension))
  /\ pc' = "respond"
  /\ UNCHANGED <<req, fetched, chatType, store, sf, response>>

\* case "extensions", CRM thread, follow-up question: runSfDirect answers
\* from the history alone
StartSfFollowup ==
  /\ pc = "dispatch" /\ chatType = "extensions"
  /\ hasSfExtension(req.chatThread)
  /\ isAnalysisFollowupOnly(req.message)
  /\ log' = log \o <<"ChatApiExtensions", "runSfDirect", "stream">>
  /\ Submit("stream",
            <<systemMessage("persona+jst+followup")>>
              \o sanitizeHistory(Get(fetched.history))
              \o <<userTurn(req.message)>>,
            <<>>)
  /\ pc' = "respond"
  /\ UNCHANGED <<req, fetched, chatType, store, sf, response>>

\* case "extensions", CRM thread, anything else: runSfDirect resolves the
\* login user and issues the gateway request
StartSfQuery ==
  /\ pc = "dispatch" /\ chatType = "extensions"
  /\ hasSfExtension(req.chatThread)
  /\ ~isAnalysisFollowupOnly(req.message)
  /\ log' = log \o <<"ChatApiExtensions", "runSfDirect", "getCurrentUser", "gateway">>
  /\ pc' = "gateway"
  /\ UNCHANGED <<req, fetched, chatType, store, sf, submitted, response>>

\* the gateway request issued again after a failure
GatewayReturnsRetrying(outcome) ==
  /\ pc = "gateway"
  /\ LET r == gatewayResult(outcome)
         jsonSnippet == jsonSnippetOf(r.sfJson)
     IN IF IsSome(r.sfError) /\ sf.outcome = None
        THEN /\ sf' = [outcome |-> Some(outcome), sfError |-> r.sfError, sfJson |-> r.sfJson]
             /\ log' = Append(log, "gateway")
             /\ pc' = "gateway"
             /\ UNCHANGED submitted
        ELSE /\ sf' = [outcome |-> Some(outcome), sfError |-> r.sfError, sfJson |-> r.sfJson]
             /\ Submit("stream",
                       <<systemMessage("persona+jst+sf")>>
                         \o sanitizeHistory(Get(fetched.history))
                         \o <<userTurn(req.message), sfDirective(r.sfError, jsonSnippet)>>,
                       <<>>)
             /\ log' = Append(log, "stream")
             /\ pc' = "respond"
  /\ UNCHANGED <<req, fetched, chatType, store, response>>

\* the gateway request ends; the directive is appended and the completion
\* stream started
GatewayReturns(outcome) ==
  /\ pc = "gateway"
  /\ LET r == gatewayResult(outcome)
         jsonSnippet == jsonSnippetOf(r.sfJson)
     IN /\ sf' = [outcome |-> Some(outcome), sfError |-> r.sfError, sfJson |-> r.sfJson]
        /\ Submit("stream",
                  <<systemMessage("persona+jst+sf")>>
                    \o sanitizeHistory(Get(fetched.history))
                    \o <<userTurn(req.message), sfDirective(r.sfError, jsonSnippet)>>,
                  <<>>)
  /\ log' = Append(log, "stream")
  /\ pc' = "respond"
  /\ UNCHANGED <<req, fetched, chatType, store, response>>

\* OpenAIStream wraps the runner and the response is returned
Respond ==
  /\ pc = "respond"
  /\ response' = Some([status |-> 200, body |-> "stream"])
  /\ log' = Append(log, "OpenAIStream")
  /\ pc' = "done"
  /\ UNCHANGED <<req, fetched, chatType, store, sf, submitted>>

\* ------------------------------------------------------------------------
\* Specifications
\* ------------------------------------------------------------------------
ClsIdle == clsMsg = <<>> /\ clsOut = "pending"
SanIdle == sanIn = <<>> /\ sanMid = <<>> /\ sanOut = <<>> /\ sanPc = "idle"
TurnIdle ==
  /\ pc = "idle" /\ req = None /\ fetched = NoFetch /\ chatType = "extensions"
  /\ store = <<>> /\ log = <<>> /\ sf = NoGateway /\ submitted = None
  /\ response = None
MdlIdle == mdl = None
ToolsIdle(slots) ==
  /\ lastTextLayoutByThread = <<>>
  /\ calls = [c \in slots |-> IdleCall]
  /\ editLog = <<>>

\* --- the image tools, one invocation at a time, on one thread ---
InitOverlay ==
  ClsIdle /\ SanIdle /\ TurnIdle /\ ToolsIdle({1}) /\ vocabulary \in Vocabularies /\ MdlIdle

CreateImage ==
  /\ \E c \in DOMAIN calls, p \in Prompts, cfg \in ImageConfigs :
       CreateImageBegin(c, "t1", p, cfg)
  /\ UNCHANGED <<clsVars, sanVars, turnVars, vocabulary, editLog, mdl>>
ImageGenerated ==
  /\ \E c \in DOMAIN calls, o \in GenerationOutcomes : CreateImageGenerated(c, o)
  /\ UNCHANGED <<clsVars, sanVars, turnVars, vocabulary, editLog, mdl>>
ImageUploaded ==
  /\ \E c \in DOMAIN calls, ok \in BOOLEAN : CreateImageUploaded(c, ok)
  /\ UNCHANGED <<clsVars, sanVars, turnVars, vocabulary, editLog, mdl>>
BaseUploaded ==
  /\ \E c \in DOMAIN calls, ok \in BOOLEAN : CreateImageBaseUploaded(c, ok)
  /\ UNCHANGED <<clsVars, sanVars, turnVars, vocabulary, editLog, mdl>>
AddText ==
  /\ \E c \in DOMAIN calls, in \in EditInputs[vocabulary] :
       /\ withinOffsets("t1", in)
       /\ AddTextBegin(c, "t1", in.args, in.userMessage)
  /\ UNCHANGED <<clsVars, sanVars, turnVars, vocabulary, editLog, mdl>>
TextComposed ==
  /\ \E c \in DOMAIN calls, o \in CompositionOutcomes : AddTextComposed(c, o)
  /\ UNCHANGED <<clsVars, sanVars, turnVars, vocabulary, editLog, mdl>>
TextUploaded ==
  /\ \E c \in DOMAIN calls, ok \in BOOLEAN : AddTextUploaded(c, ok)
  /\ UNCHANGED <<clsVars, sanVars, turnVars, vocabulary, editLog, mdl>>

NextOverlay ==
  \/ CreateImage \/ ImageGenerated \/ ImageUploaded \/ BaseUploaded
  \/ AddText \/ TextComposed \/ TextUploaded

SpecOverlay == InitOverlay /\ [][NextOverlay]_vars

\* --- consecutive overlay edits on one thread, with the offset calculation
\* of each edit logged ---
InitNudge ==
  ClsIdle /\ SanIdle /\ TurnIdle /\ ToolsIdle({1}) /\ vocabulary = "nudge" /\ MdlIdle

\* the last MaxLog entries of the log with one more entry
logged(entry) ==
  LET l == Append(editLog, entry) IN
  IF Len(l) > MaxLog THEN SubSeq(l, Len(l) - MaxLog + 1, Len(l)) ELSE l

AddTextLogged ==
  /\ \E c \in DOMAIN calls, in \in NudgeInputs :
       /\ withinOffsets("t1", in)
       /\ AddTextBegin(c, "t1", in.args, in.userMessage)
       /\ editLog' = logged(
            [hintSource |-> hintSourceOf(in.args, in.userMessage),
             argsOffsetX |-> in.args.offsetX,
             baseOffsetX |-> IF "t1" \in DOMAIN lastTextLayoutByThread
                             THEN Some(lastTextLayoutByThread["t1"].offsetX)
                             ELSE None,
             finalOffsetX |-> lastTextLayoutByThread'["t1"].offsetX])
  /\ UNCHANGED <<clsVars, sanVars, turnVars, vocabulary, mdl>>

NextNudge == AddTextLogged \/ TextComposed \/ TextUploaded

SpecNudge == InitNudge /\ [][NextNudge]_vars

\* --- the follow-up classifier on every message of up to MaxFrags fragments ---
InitClassifier ==
  /\ clsMsg \in ClassifierMessages /\ clsOut = "pending"
  /\ SanIdle /\ TurnIdle /\ ToolsIdle({}) /\ vocabulary = "none" /\ MdlIdle

Classify ==
  /\ clsOut = "pending"
  /\ clsOut' = IF isAnalysisFollowupOnly(clsMsg) THEN "followup" ELSE "query"
  /\ UNCHANGED <<clsMsg, sanVars, toolVars, turnVars, vocabulary, editLog, mdl>>

NextClassifier == Classify

SpecClassifier == InitClassifier /\ [][NextClassifier]_vars

\* --- the history sanitizer on every history of up to MaxHist messages ---
InitSanitizer ==
  /\ sanIn \in Histories /\ sanMid = <<>> /\ sanOut = <<>> /\ sanPc = "mapped"
  /\ ClsIdle /\ TurnIdle /\ ToolsIdle({}) /\ vocabulary = "none" /\ MdlIdle

\* _getHistory returns the mapped history with the orphan tool turns removed
GetHistory ==
  /\ sanPc = "mapped"
  /\ sanMid' = fixOrphanToolsInline(sanIn)
  /\ sanPc' = "fetched"
  /\ UNCHANGED <<sanIn, sanOut, clsVars, toolVars, turnVars, vocabulary, editLog, mdl>>

\* ChatApiExtensions sanitizes the history it was handed
SanitizeHistory ==
  /\ sanPc = "fetched"
  /\ sanOut' = sanitizeHistory(sanMid)
  /\ sanPc' = "safe"
  /\ UNCHANGED <<sanIn, sanMid, clsVars, toolVars, turnVars, vocabulary, editLog, mdl>>

NextSanitizer == GetHistory \/ SanitizeHistory

SpecSanitizer == InitSanitizer /\ [][NextSanitizer]_vars

\* --- image-tool calls in flight together, on two threads ---
Threads == {"t1", "t2"}

\* a nudge by an arrow, a nudge by the offset argument, and a re-centring
ThreadInputs ==
  {[args |-> Plain(TextA, h), userMessage |-> um_ireteKudasai] :
      h \in {h_arrowRight, h_chuuouNi}}
  \cup {[args |-> Args(TextA, <<>>, None, None, None, Some(NudgeX), None),
         userMessage |-> um_ireteKudasai]}

InitThreads ==
  ClsIdle /\ SanIdle /\ TurnIdle /\ ToolsIdle({1, 2}) /\ vocabulary = "none" /\ MdlIdle

NotTools == <<clsVars, sanVars, turnVars, vocabulary, editLog, mdl>>

ThreadsCreateImage ==
  /\ \E c \in DOMAIN calls, t \in Threads : CreateImageBegin(c, t, <<"p">>, "ok")
  /\ UNCHANGED NotTools
ThreadsImageGenerated ==
  /\ \E c \in DOMAIN calls, o \in {"throw", "url", "b64"} : CreateImageGenerated(c, o)
  /\ UNCHANGED NotTools
ThreadsImageUploaded ==
  /\ \E c \in DOMAIN calls, ok \in BOOLEAN : CreateImageUploaded(c, ok)
  /\ UNCHANGED NotTools
ThreadsBaseUploaded ==
  /\ \E c \in DOMAIN calls, ok \in BOOLEAN : CreateImageBaseUploaded(c, ok)
  /\ UNCHANGED NotTools
ThreadsAddText ==
  /\ \E c \in DOMAIN calls, t \in Threads, in \in ThreadInputs :
       /\ withinOffsets(t, in)
       /\ AddTextBegin(c, t, in.args, in.userMessage)
  /\ UNCHANGED NotTools
ThreadsTextComposed ==
  /\ \E c \in DOMAIN calls, o \in {"http_error", "ok"} : AddTextComposed(c, o)
  /\ UNCHANGED NotTools
ThreadsTextUploaded ==
  /\ \E c \in DOMAIN calls, ok \in BOOLEAN : AddTextUploaded(c, ok)
  /\ UNCHANGED NotTools

NextThreads ==
  \/ ThreadsCreateImage \/ ThreadsImageGenerated \/ ThreadsImageUploaded
  \/ ThreadsBaseUploaded \/ ThreadsAddText \/ ThreadsTextComposed
  \/ ThreadsTextUploaded

SpecThreads == InitThreads /\ [][NextThreads]_vars

\* --- ChatApiExtensions, for the model it resolves and hands on ---
InitModel ==
  /\ mdl \in [pc : {"called"},
              chatThread : [id : {"t1"},
                            extension : { <<"ext1">>, <<"ext1", SfExtensionId>> },
                            model : ThreadModels],
              env : ModelEnvs,
              userMessage : { m_sonoRiyuu, m_ankenKingaku },
              model : {None},
              completions : {<<>>}]
  /\ ClsIdle /\ SanIdle /\ TurnIdle /\ ToolsIdle({}) /\ vocabulary = "none"

NotModel == <<clsVars, sanVars, toolVars, turnVars, vocabulary, editLog>>

\* const model = resolveModelForExtensions(chatThread)
ResolveModel ==
  /\ mdl.pc = "called"
  /\ mdl' = [mdl EXCEPT !.pc = "resolved",
                        !.model = Some(resolveModelForExtensions(mdl.chatThread, mdl.env))]
  /\ UNCHANGED NotModel

completion(api, substate) ==
  [mdl EXCEPT !.pc = "returned",
              !.completions = Append(@, [api |-> api, substate |-> substate,
                                         model |-> Get(mdl.model)])]

\* not a CRM thread: runTools with the resolved model
ModelRunTools ==
  /\ mdl.pc = "resolved" /\ ~hasSfExtension(mdl.chatThread)
  /\ mdl' = completion("runTools", "tools")
  /\ UNCHANGED NotModel

\* CRM thread, follow-up question: the stream of the context-only answer
ModelSfFollowup ==
  /\ mdl.pc = "resolved" /\ hasSfExtension(mdl.chatThread)
  /\ isAnalysisFollowupOnly(mdl.userMessage)
  /\ mdl' = completion("stream", "context-only")
  /\ UNCHANGED NotModel

\* CRM thread, anything else: the gateway request is issued
ModelSfGateway ==
  /\ mdl.pc = "resolved" /\ hasSfExtension(mdl.chatThread)
  /\ ~isAnalysisFollowupOnly(mdl.userMessage)
  /\ mdl' = [mdl EXCEPT !.pc = "gateway"]
  /\ UNCHANGED NotModel

\* the gateway request has ended: the stream of the gateway-query answer
ModelSfSummary ==
  /\ mdl.pc = "gateway"
  /\ mdl' = completion("stream", "gateway-query")
  /\ UNCHANGED NotModel

NextModel ==
  ResolveModel \/ ModelRunTools \/ ModelSfFollowup \/ ModelSfGateway \/ ModelSfSummary

SpecModel == InitModel /\ [][NextModel]_vars

\* --- one chat turn, from the request to the response ---
Init ==
  /\ pc = "ensure"
  /\ req \in [chatThread : [id : {"t1"}, extension : ExtensionLists],
               message : RouterMessages,
               multimodalImage : ImageAttachments,
               envSfExtensionId : ConfiguredSfIds]
  /\ fetched = NoFetch /\ chatType = "extensions"
  /\ store \in StoredHistories
  /\ log = <<>> /\ sf = NoGateway /\ submitted = None /\ response = None
  /\ ClsIdle /\ SanIdle /\ ToolsIdle({}) /\ vocabulary = "none" /\ MdlIdle

Others == <<clsVars, sanVars, toolVars, vocabulary, editLog, mdl>>

Ensure == (\E ok \in BOOLEAN : EnsureChatThread(ok)) /\ UNCHANGED Others
FetchUser == GetCurrentUser /\ UNCHANGED Others
FetchHistory == (\E ok \in BOOLEAN : GetHistoryOfThread(ok)) /\ UNCHANGED Others
FetchDocuments == (\E r \in DocsResponses : GetDocuments(r)) /\ UNCHANGED Others
FetchExtensions ==
  /\ \E d \in DefaultResponses \cup {NotFetched}, r \in DynamicResponses : GetExtensions(d, r)
  /\ UNCHANGED Others
Record == RecordUserMessage /\ UNCHANGED Others
RAG == StartRAG /\ UNCHANGED Others
Multimodal == StartMultimodal /\ UNCHANGED Others
Extensions == StartExtensions /\ UNCHANGED Others
SfFollowup == StartSfFollowup /\ UNCHANGED Others
SfQuery == StartSfQuery /\ UNCHANGED Others
Gateway == (\E o \in GatewayOutcomes : GatewayReturns(o)) /\ UNCHANGED Others
Return == Respond /\ UNCHANGED Others

Next ==
  \/ Ensure \/ FetchUser \/ FetchHistory \/ FetchDocuments \/ FetchExtensions
  \/ Record \/ RAG \/ Multimodal \/ Extensions \/ SfFollowup \/ SfQuery
  \/ Gateway \/ Return

Spec == Init /\ [][Next]_vars

\* ------------------------------------------------------------------------
\* Properties
\* ------------------------------------------------------------------------
Generators == {"ChatApiRAG", "ChatApiMultimodal", "ChatApiExtensions"}
GenerationCalls == Generators \cup {"runSfDirect", "gateway", "runTools", "stream"}
invokedGenerators == SelectSeq(log, LAMBDA e : e \in Generators)
threadEstablished == pc \notin {"idle", "ensure"} /\ ~(pc = "done" /\ response = Some([status |-> 401, body |-> "empty"]))
generationStarted == pc \in {"gateway", "respond"} \/ (pc = "done" /\ threadEstablished)

\* C1: once the thread is established, a turn invokes exactly one generator,
\* chosen in the priority multimodal (a non-empty image attachment), then
\* chat-with-file (a non-empty document list), then extensions (also with an
\* empty tool list); before the dispatch none is invoked.
C1_OneGeneratorByPriority ==
  /\ Len(invokedGenerators) <= 1
  /\ generationStarted =>
       /\ Len(invokedGenerators) = 1
       /\ invokedGenerators[1] =
            IF IsSome(req.multimodalImage) /\ Get(req.multimodalImage) /= <<>>
              THEN "ChatApiMultimodal"
            ELSE IF Get(fetched.docs) /= <<>> THEN "ChatApiRAG"
            ELSE "ChatApiExtensions"
  /\ ~generationStarted => invokedGenerators = <<>>

C1_Witness ==
  /\ pc = "done" /\ invokedGenerators = <<"ChatApiMultimodal">>
  /\ Get(fetched.docs) /= <<>> /\ Len(Get(fetched.extension)) > 1
  /\ req.chatThread.extension /= <<>>

\* the position of the nearest assistant turn before position i, 0 if none
nearestAssistant(h, i) ==
  IF \E j \in 1..(i - 1) : h[j].role = "assistant"
  THEN CHOOSE j \in 1..(i - 1) :
         /\ h[j].role = "assistant"
         /\ \A k \in (j + 1)..(i - 1) : h[k].role /= "assistant"
  ELSE 0

toolTurnAnchored(h, i) ==
  LET j == nearestAssistant(h, i) IN
  /\ j > 0
  /\ IsSome(h[j].tool_calls)
  /\ IsSome(h[i].tool_call_id)
  /\ \E n \in 1..Len(Get(h[j].tool_calls)) :
       Get(h[j].tool_calls)[n] = Get(h[i].tool_call_id)
  /\ \A k \in (j + 1)..(i - 1) : h[k].role \notin {"user", "system"}

\* C2: in the history handed to the completion call every tool turn carries
\* an id issued by the nearest preceding assistant turn of that history, and
\* no user or system turn lies between the two.
C2_NoOrphanToolTurn ==
  sanPc = "safe" =>
    \A i \in 1..Len(sanOut) : sanOut[i].role = "tool" => toolTurnAnchored(sanOut, i)

toolTurns(h) == Len(SelectSeq(h, LAMBDA x : x.role = "tool"))

C2_Witness ==
  /\ sanPc = "safe"
  /\ toolTurns(sanOut) = 1 /\ toolTurns(sanIn) = 2
  /\ \E i \in 1..Len(sanIn) : sanIn[i].role = "user"

\* C3: a generator, the gateway or the completion API is called only after
\* CreateChatMessage has recorded the user's message.
C3_RecordedBeforeGeneration ==
  /\ \A i \in 1..Len(log) :
       log[i] \in GenerationCalls => \E j \in 1..(i - 1) : log[j] = "CreateChatMessage"
  /\ (pc = "gateway" \/ IsSome(submitted)) =>
       /\ store /= <<>>
       /\ store[Len(store)] = userTurn(req.message)

C3_Witness ==
  /\ pc = "done" /\ IsSome(submitted)
  /\ \E i \in 1..Len(log) : \E j \in (i + 1)..Len(log) :
       log[i] = "CreateChatMessage" /\ log[j] = "gateway"
  /\ store /= <<>> /\ store[Len(store)] = userTurn(req.message)

\* the overlay edits that have resolved a layout and await the composition
composing == {c \in DOMAIN calls : calls[c].op = "add_text" /\ calls[c].phase = "composing"}
edit(c) ==
  [args |-> Get(calls[c].args),
   loc |-> locals(Get(calls[c].args), calls[c].userMessage),
   last |-> calls[c].last,
   sent |-> Get(calls[c].sent),
   stored |-> lastTextLayoutByThread[calls[c].thread]]

\* C4 as stated: when the text parsed for style hints (the style hint, else
\* the user message) has no text-change marker and the stored text differs
\* from the supplied one, the stored and sent text is the previous text.
C4_AsClaimed ==
  \A c \in composing :
    LET e == edit(c) IN
    (/\ IsSome(e.last) /\ Get(e.last).text /= e.loc.text
     /\ ~includesAny(e.loc.hintSource, ExplicitChangeWords))
    => e.sent.text = Get(e.last).text /\ e.stored.text = Get(e.last).text

\* C4: when the turn's user message has no text-change marker and the stored
\* text differs from the supplied one, the text written to layout memory and
\* sent to the composition service is the previous text.
C4_TextKeptUnlessUserAsksChange ==
  \A c \in composing :
    LET e == edit(c) IN
    (/\ IsSome(e.last) /\ Get(e.last).text /= e.loc.text
     /\ ~includesAny(toLowerCase(calls[c].userMessage), ExplicitChangeWords))
    => e.sent.text = Get(e.last).text /\ e.stored.text = Get(e.last).text

C4_Witness ==
  \E c \in composing :
    LET e == edit(c) IN
    /\ IsSome(e.last) /\ Get(e.last).text = TextA /\ e.loc.text = TextB
    /\ e.loc.hintSource = h_akamoji
    /\ ~includesAny(toLowerCase(calls[c].userMessage), ExplicitChangeWords)
    /\ e.sent.text = TextA /\ e.stored.text = TextA

verbalNudgeRight(entry) ==
  entry.hintSource \in {h_sukoshiMigi, h_choiMigi, h_yayaMigi} /\ entry.argsOffsetX = None

\* C5 as stated: from a stored offset 0, two consecutive verbal nudges to the
\* right leave the offset 2 x 80 = 160; with a "centre it" between them, 80.
C5_AsClaimed ==
  /\ \A i \in 1..(Len(editLog) - 1) :
       (/\ verbalNudgeRight(editLog[i]) /\ verbalNudgeRight(editLog[i + 1])
        /\ editLog[i].baseOffsetX = Some(0))
       => editLog[i + 1].finalOffsetX = 2 * NudgeX
  /\ \A i \in 1..(Len(editLog) - 2) :
       (/\ verbalNudgeRight(editLog[i]) /\ editLog[i + 1].hintSource = h_chuuouNi
        /\ verbalNudgeRight(editLog[i + 2])
        /\ editLog[i].baseOffsetX = Some(0))
       => editLog[i + 1].finalOffsetX = 0 /\ editLog[i + 2].finalOffsetX = NudgeX

\* C6 as stated: the size before relative adjustment is the parsed absolute
\* size, else the caller-supplied size, else the previous size, else large.
C6_AsClaimed ==
  \A c \in composing :
    LET e == edit(c) IN
    e.sent.size = adjustSize(baseSizeParsedFirst(e.args, e.loc.parsed, e.last),
                             e.loc.parsed.sizeAdjust)

\* C6: the size before relative adjustment is the caller-supplied size, else
\* the absolute size parsed from the instruction, else the previous stored
\* size, else large; a caller-supplied size wins over a parsed one.
C6_CallerSizeFirst ==
  \A c \in composing :
    LET e == edit(c)
        before == IF IsSome(e.args.size) THEN Get(e.args.size)
                  ELSE IF IsSome(e.loc.parsed.size) THEN Get(e.loc.parsed.size)
                  ELSE IF IsSome(e.last) THEN Get(e.last).size
                  ELSE "large"
    IN /\ e.loc.parsed.sizeAdjust = None => e.sent.size = before
       /\ e.sent.size = adjustSize(before, e.loc.parsed.sizeAdjust)
       /\ e.stored.size = e.sent.size

C6_Witness ==
  \E c \in composing :
    LET e == edit(c) IN
    /\ e.args.size = Some("small") /\ e.loc.parsed.size = Some("xlarge")
    /\ e.loc.parsed.sizeAdjust = None
    /\ IsSome(e.last) /\ Get(e.last).size = "large"
    /\ e.sent.size = "small"

hasDataPullNoun(s) == includesAny(s, DataPullWords)
hasRequeryWord(s) == includesAny(toLowerCase(s), RequeryWords)
hasAnalysisWord(s) == includesAny(s, AnalysisWords)
shortDemonstrative(s) == startsWithAny(s, DemonstrativeWords) /\ Len(s) <= FollowupMaxLength

\* C7: the classifier's rules apply first-match-wins: a data-pull noun gives
\* not follow-up; else re-query vocabulary gives not follow-up; else
\* analytical vocabulary gives follow-up; else a demonstrative opening with
\* length <= 40 gives follow-up; else not follow-up.  The empty message is
\* not follow-up, "anken no kingaku wo oshiete" is not, "sono riyuu wa?" is.
C7_FirstMatchWins ==
  clsOut /= "pending" =>
    LET s == trim(clsMsg) IN
    /\ s = <<>> => clsOut = "query"
    /\ hasDataPullNoun(s) => clsOut = "query"
    /\ (~hasDataPullNoun(s) /\ hasRequeryWord(s)) => clsOut = "query"
    /\ (s /= <<>> /\ ~hasDataPullNoun(s) /\ ~hasRequeryWord(s) /\ hasAnalysisWord(s))
         => clsOut = "followup"
    /\ (s /= <<>> /\ ~hasDataPullNoun(s) /\ ~hasRequeryWord(s) /\ ~hasAnalysisWord(s))
         => (clsOut = "followup" <=> shortDemonstrative(s))
    /\ clsMsg = m_ankenKingaku => clsOut = "query"
    /\ clsMsg = m_sonoRiyuu => clsOut = "followup"

C7_Witness ==
  /\ clsOut = "query"
  /\ hasDataPullNoun(clsMsg) /\ hasAnalysisWord(clsMsg)
  /\ shortDemonstrative(clsMsg)

gatewayFailed(o) == o.kind = "throw" \/ ~o.ok \/ ~o.parses

\* C8: when the gateway request fails (exception, non-success status, or a
\* body that is not JSON), the completion stream is still started with a
\* system directive describing the failure as its last message (naming the
\* HTTP status for a non-success status), and the turn returns a stream.
C8_GatewayFailureStillStreams ==
  (IsSome(sf.outcome) /\ gatewayFailed(Get(sf.outcome))) =>
    LET o == Get(sf.outcome)
        messages == Get(submitted).messages
        directive == messages[Len(messages)]
    IN /\ IsSome(submitted) /\ Get(submitted).api = "stream"
       /\ directive.role = "system"
       /\ includes(Get(directive.content), <<SfErrorLead>>)
       /\ (o.kind = "http" /\ ~o.ok) => includes(Get(directive.content), <<o.status>>)
       /\ messages[Len(messages) - 1] = userTurn(req.message)
       /\ pc \in {"respond", "done"}
       /\ pc = "done" => response = Some([status |-> 200, body |-> "stream"])

C8_Witness ==
  /\ pc = "done" /\ IsSome(sf.outcome)
  /\ Get(sf.outcome).status = "500"
  /\ response = Some([status |-> 200, body |-> "stream"])

\* C9 as stated: whenever executeCreateImage has returned an image url, the
\* thread's layout memory entry is absent.
C9_AsClaimed ==
  \A c \in DOMAIN calls :
    (/\ calls[c].op = "create_img" /\ calls[c].phase = "done"
     /\ IsSome(Get(calls[c].result).url))
    => calls[c].thread \notin DOMAIN lastTextLayoutByThread

LayoutFields ==
  {"align", "vAlign", "offsetX", "offsetY", "size", "text", "color",
   "fontFamily", "bold", "italic"}

completeLayout(l) ==
  /\ DOMAIN l = LayoutFields
  /\ l.align \in {"left", "center", "right"}
  /\ l.vAlign \in {"top", "middle", "bottom"}
  /\ l.offsetX \in Int /\ l.offsetY \in Int
  /\ l.size \in STRING /\ l.color \in STRING
  /\ l.text /= <<>>
  /\ l.fontFamily \in {"gothic", "mincho", "meiryo"}
  /\ l.bold \in BOOLEAN /\ l.italic \in BOOLEAN

sizeUnspecified(e) ==
  e.args.size = None /\ e.loc.parsed.size = None /\ e.loc.parsed.sizeAdjust = None
colorUnspecified(e) == e.args.color = None /\ e.loc.parsed.color = None
fontUnspecified(e) ==
  e.args.font = None /\ e.loc.parsed.font = None /\ e.loc.hintedFontFamily = None
offsetXUnspecified(e) == e.args.offsetX = None /\ e.loc.parsed.offsetX = None
offsetYUnspecified(e) == e.args.offsetY = None /\ e.loc.parsed.offsetY = None

\* the fields other than the offsets keep the stored value when unspecified
styleFieldsKept(e) ==
  LET old == Get(e.last) IN
  /\ e.loc.parsed.align = None => e.stored.align = old.align
  /\ e.loc.parsed.vAlign = None => e.stored.vAlign = old.vAlign
  /\ sizeUnspecified(e) => e.stored.size = old.size
  /\ colorUnspecified(e) => e.stored.color = old.color
  /\ fontUnspecified(e) => e.stored.fontFamily = old.fontFamily
  /\ (~e.loc.boldOn /\ ~e.loc.boldOff) => e.stored.bold = old.bold
  /\ (~e.loc.italicOn /\ ~e.loc.italicOff) => e.stored.italic = old.italic

\* C10 as stated: every stored layout is complete, and after an edit every
\* field that neither the instruction nor the caller specified has the value
\* stored before the edit.
C10_AsClaimed ==
  /\ \A t \in DOMAIN lastTextLayoutByThread : completeLayout(lastTextLayoutByThread[t])
  /\ \A c \in composing :
       LET e == edit(c) IN
       IsSome(e.last) =>
         /\ styleFieldsKept(e)
         /\ offsetXUnspecified(e) => e.stored.offsetX = Get(e.last).offsetX
         /\ offsetYUnspecified(e) => e.stored.offsetY = Get(e.last).offsetY

\* C10: every stored layout is complete, and after an edit every field that
\* neither the instruction nor the caller specified has the value stored
\* before the edit, except that an unspecified offset is reset to 0 when the
\* instruction specifies a position.
C10_CompleteAndInherited ==
  /\ \A t \in DOMAIN lastTextLayoutByThread : completeLayout(lastTextLayoutByThread[t])
  /\ \A c \in composing :
       LET e == edit(c) IN
       IsSome(e.last) =>
         /\ styleFieldsKept(e)
         /\ offsetXUnspecified(e) =>
              e.stored.offsetX = IF e.loc.positionSpecified THEN 0 ELSE Get(e.last).offsetX
         /\ offsetYUnspecified(e) =>
              e.stored.offsetY = IF e.loc.positionSpecified THEN 0 ELSE Get(e.last).offsetY

C10_Witness ==
  \E c \in composing :
    LET e == edit(c) IN
    /\ IsSome(e.last)
    /\ e.loc.parsed.align = None /\ Get(e.last).align = "left" /\ e.stored.align = "left"
    /\ e.loc.parsed.vAlign = None /\ Get(e.last).vAlign = "top" /\ e.stored.vAlign = "top"
    /\ offsetXUnspecified(e) /\ Get(e.last).offsetX = NudgeX /\ e.stored.offsetX = NudgeX

unauthorized == response = Some([status |-> 401, body |-> "empty"])

\* C11: when EnsureChatThreadOperation fails the turn ends at once with a 401
\* response of empty body: nothing is fetched, the user's message is not
\* recorded, and neither the gateway nor the completion API is called; a turn
\* that ends right after the thread lookup has returned exactly that response.
C11_EnsureFailureEndsTurn ==
  /\ unauthorized =>
       /\ pc = "done"
       /\ log = <<"EnsureChatThreadOperation">>
       /\ fetched = NoFetch /\ store \in StoredHistories
       /\ sf = NoGateway /\ submitted = None
  /\ (pc = "done" /\ Len(log) = 1) => unauthorized

C11_Witness ==
  /\ unauthorized /\ pc = "done" /\ store /= <<>>
  /\ req.message /= <<>>

callsOf(name) == Len(SelectSeq(log, LAMBDA e : e = name))

\* C12: in a turn the gateway request and the tool-augmented completion
\* (runTools) are never both issued; the gateway request is issued at most
\* once, also after a failure, and only when the strategy is extensions, the
\* thread's extension list holds the CRM identifier and the message is not
\* classified as a follow-up.
C12_GatewayExclusiveAndOnce ==
  /\ callsOf("gateway") <= 1
  /\ callsOf("runTools") <= 1
  /\ ~(callsOf("gateway") > 0 /\ callsOf("runTools") > 0)
  /\ callsOf("gateway") > 0 =>
       /\ chatType = "extensions"
       /\ \E i \in 1..Len(req.chatThread.extension) :
            req.chatThread.extension[i] = SfExtensionId
       /\ ~isAnalysisFollowupOnly(req.message)
       /\ Len(Get(fetched.docs)) = 0
       /\ ~(IsSome(req.multimodalImage) /\ Len(Get(req.multimodalImage)) > 0)
  /\ (pc = "done" /\ IsSome(sf.outcome)) => callsOf("gateway") = 1

C12_Witness ==
  /\ pc = "done" /\ callsOf("gateway") = 1 /\ callsOf("runTools") = 0
  /\ IsSome(sf.sfError) /\ callsOf("stream") = 1

\* the sanitizer as the completion call sees it: _getHistory, then sanitizeHistory
sanitized(h) == sanitizeHistory(fixOrphanToolsInline(h))

\* C13: the history sanitizer is idempotent: sanitizing its own output gives
\* that output again, and each of its two passes leaves the output alone.
C13_SanitizerIdempotent ==
  sanPc = "safe" =>
    /\ sanOut = sanitized(sanIn)
    /\ sanitized(sanOut) = sanOut
    /\ fixOrphanToolsInline(sanOut) = sanOut
    /\ sanitizeHistory(sanOut) = sanOut

C13_Witness ==
  /\ sanPc = "safe" /\ Len(sanOut) = 2 /\ Len(sanIn) = 4
  /\ sanOut[1].role = "assistant" /\ sanIn[1].content = None
  /\ sanOut[2].role = "tool"
  /\ sanitized(sanOut) = sanOut

\* the thread's extension list names the CRM identifier _getExtensions is
\* configured with
crmThreadForTools ==
  \E i \in 1..Len(req.chatThread.extension) :
     req.chatThread.extension[i] = req.envSfExtensionId
toolsOf(toolsResponse) ==
  IF toolsResponse.status = "OK" THEN toolsResponse.response ELSE <<>>

\* C14: _getExtensions asks for the default tools exactly when the thread's
\* extension list does not hold the CRM identifier it is configured with,
\* and always asks for the dynamic tools; its list is the default tools that
\* were found followed by the dynamic tools, so on such a CRM thread it
\* holds no default image tool.
C14_DefaultToolsUnlessCrm ==
  /\ fetched.extension = None =>
       callsOf("GetDefaultExtensions") = 0 /\ callsOf("GetDynamicExtensions") = 0
  /\ IsSome(fetched.extension) =>
       LET src == Get(fetched.toolSources) IN
       /\ callsOf("GetDynamicExtensions") = 1
       /\ callsOf("GetDefaultExtensions") = (IF crmThreadForTools THEN 0 ELSE 1)
       /\ Get(fetched.extension) =
            (IF crmThreadForTools THEN <<>> ELSE toolsOf(src.default))
              \o toolsOf(src.dynamic)
       /\ crmThreadForTools =>
            \A i \in 1..Len(Get(fetched.extension)) :
               Get(fetched.extension)[i] \notin {"create_img", "add_text_to_existing_image"}

C14_Witness ==
  /\ IsSome(fetched.extension) /\ crmThreadForTools
  /\ Get(fetched.extension) = <<"dyn1">>
  /\ callsOf("GetDefaultExtensions") = 0

\* C18: a tool source that fails or finds nothing does not abort the turn:
\* _getExtensions returns the tools of the other source, and the turn goes on
\* to choose a strategy and to start the generation.
C18_ToolSourceFailureTolerated ==
  /\ (IsSome(fetched.extension) /\ ~crmThreadForTools) =>
       LET src == Get(fetched.toolSources) IN
       /\ (src.default.status /= "OK" \/ src.default.response = <<>>)
            => Get(fetched.extension) = toolsOf(src.dynamic)
       /\ (src.dynamic.status /= "OK" \/ src.dynamic.response = <<>>)
            => Get(fetched.extension) = toolsOf(src.default)
  /\ (pc = "done" /\ ~unauthorized) =>
       /\ Len(invokedGenerators) = 1
       /\ IsSome(submitted)
       /\ response = Some([status |-> 200, body |-> "stream"])
  /\ pc \in {"dispatch", "gateway", "respond"} =>
       /\ IsSome(fetched.extension)
       /\ chatType = chatTypeOf(req.multimodalImage, Get(fetched.docs), Get(fetched.extension))

C18_Witness ==
  /\ pc = "done" /\ response = Some([status |-> 200, body |-> "stream"])
  /\ IsSome(fetched.toolSources)
  /\ Get(fetched.toolSources).default.status = "ERROR"
  /\ Get(fetched.toolSources).dynamic.response = <<"dyn1">>
  /\ IsSome(submitted) /\ Get(submitted).tools = <<"dyn1">>

\* the position of a size on the scale small < medium < large < xlarge, 0
\* for a size that is not on it
sizeRank(s) ==
  CASE s = "small" -> 1 [] s = "medium" -> 2 [] s = "large" -> 3
    [] s = "xlarge" -> 4 [] OTHER -> 0

\* C15: a relative adjustment moves the size resolved before it exactly one
\* position along small < medium < large < xlarge and stops at the ends:
\* larger at xlarge gives xlarge, smaller at small gives small, larger never
\* lowers the size and smaller never raises it; a size that is not on the
\* scale is left as it is.
C15_StepsOneAndClamps ==
  \A c \in composing :
    LET e == edit(c)
        from == sizeRank(baseSize(e.args, e.loc.parsed, e.last))
        to == sizeRank(e.sent.size)
        adjust == e.loc.parsed.sizeAdjust
    IN /\ e.stored.size = e.sent.size
       /\ from = 0 => e.sent.size = baseSize(e.args, e.loc.parsed, e.last)
       /\ (from > 0 /\ adjust = Some("larger")) =>
            /\ to = (IF from = 4 THEN 4 ELSE from + 1)
            /\ to >= from
       /\ (from > 0 /\ adjust = Some("smaller")) =>
            /\ to = (IF from = 1 THEN 1 ELSE from - 1)
            /\ to <= from
       /\ adjust = None => to = from

C15_Witness ==
  \E c \in composing :
    LET e == edit(c) IN
    /\ e.loc.parsed.sizeAdjust = Some("smaller") /\ e.args.size = None
    /\ IsSome(e.last) /\ Get(e.last).size = "small" /\ e.sent.size = "small"

\* C16: horizontal and vertical alignment resolve each on its own: the
\* alignment parsed from the instruction when there is one, else the
\* alignment stored for the thread, else center (horizontal) and middle
\* (vertical); the resolved pair is what is stored and sent.
C16_AlignmentFallback ==
  \A c \in composing :
    LET e == edit(c)
        p == e.loc.parsed
    IN /\ IsSome(p.align) => e.sent.align = Get(p.align)
       /\ (p.align = None /\ IsSome(e.last)) => e.sent.align = Get(e.last).align
       /\ (p.align = None /\ e.last = None) => e.sent.align = "center"
       /\ IsSome(p.vAlign) => e.sent.vAlign = Get(p.vAlign)
       /\ (p.vAlign = None /\ IsSome(e.last)) => e.sent.vAlign = Get(e.last).vAlign
       /\ (p.vAlign = None /\ e.last = None) => e.sent.vAlign = "middle"
       /\ e.stored.align = e.sent.align /\ e.stored.vAlign = e.sent.vAlign

C16_Witness ==
  \E c \in composing :
    LET e == edit(c) IN
    /\ IsSome(e.last) /\ Get(e.last).align = "left" /\ Get(e.last).vAlign = "top"
    /\ e.loc.parsed.align = Some("right") /\ e.loc.parsed.vAlign = None
    /\ e.sent.align = "right" /\ e.sent.vAlign = "top"

\* --- C17 ---
nonBlank(value) == value /= None /\ \E i \in 1..Len(Get(value)) : Get(value)[i] /= " "

\* the first non-blank of a list of settings, without the blanks around it
firstNonBlank(settings) ==
  LET first == CHOOSE i \in 1..Len(settings) :
                 /\ nonBlank(settings[i])
                 /\ \A j \in 1..(i - 1) : ~nonBlank(settings[j])
  IN trim(Get(settings[first]))

generalSettings(m) ==
  <<m.chatThread.model, m.env.OPENAI_CHAT_MODEL, m.env.AZURE_OPENAI_CHAT_MODEL,
    m.env.OPENAI_MODEL, m.env.AZURE_OPENAI_MODEL, Some(FallbackModel)>>

specializedSettings(m) ==
  <<m.env.AZURE_OPENAI_SOQL_CHAT_MODEL, m.env.AZURE_OPENAI_SOQL_MODEL>>

specializedConfigured(m) ==
  \E i \in 1..2 : nonBlank(specializedSettings(m)[i])

\* C17: on a CRM-flagged thread with a specialized model configured the
\* resolved model is that specialized model; in every other case it is the
\* first non-blank of the thread-level override, the environment defaults in
\* their order and the built-in fallback; and every completion request of the
\* call, in both CRM sub-states, carries the resolved model.
C17_ResolvedModel ==
  mdl /= None /\ IsSome(mdl.model) =>
    /\ Get(mdl.model) =
         IF hasSfExtension(mdl.chatThread) /\ specializedConfigured(mdl)
         THEN firstNonBlank(specializedSettings(mdl))
         ELSE firstNonBlank(generalSettings(mdl))
    /\ \A i \in 1..Len(mdl.completions) :
         mdl.completions[i].model = Get(mdl.model)

\* a CRM thread with both a thread-level override and a specialized model has
\* answered through the gateway with the specialized model
C17_Witness ==
  /\ mdl /= None /\ mdl.pc = "returned"
  /\ hasSfExtension(mdl.chatThread)
  /\ nonBlank(mdl.chatThread.model)
  /\ mdl.env.AZURE_OPENAI_SOQL_CHAT_MODEL = Some(<<" ">>)
  /\ mdl.env.AZURE_OPENAI_SOQL_MODEL = Some(<<"Q">>)
  /\ mdl.completions = <<[api |-> "stream", substate |-> "gateway-query", model |-> <<"Q">>]>>

\* --- C19 ---
\* the call in slot c is over at once with an object carrying an error field,
\* and layout memory is as it was
rejectedAtOnce(c) ==
  /\ calls'[c].phase = "done"
  /\ Get(calls'[c].result).type = "object"
  /\ IsSome(Get(calls'[c].result).error)
  /\ UNCHANGED lastTextLayoutByThread

\* an overlay edit whose text is empty or blank is rejected at once
addTextWithoutTextRejected ==
  \A c \in DOMAIN calls, in \in EditInputs[vocabulary] :
    (/\ trim(in.args.text) = <<>>
     /\ AddTextBegin(c, "t1", in.args, in.userMessage))
    => rejectedAtOnce(c)

\* an image request whose prompt is empty is rejected at once
createImgWithoutPromptRejected ==
  \A c \in DOMAIN calls, cfg \in ImageConfigs :
    CreateImageBegin(c, "t1", <<>>, cfg) => rejectedAtOnce(c)

\* C19 as stated: a tool call without its required field (an overlay edit with
\* empty or blank text, an image request with an empty prompt) ends at once
\* with an object carrying an error field, starts no generation, composition or
\* upload, and leaves the thread's layout memory unchanged.
C19_AsClaimed ==
  [][addTextWithoutTextRejected /\ createImgWithoutPromptRejected]_vars

\* the overlay half of C19 alone, which the code satisfies
C19_OverlayHalf == [][addTextWithoutTextRejected]_vars

\* --- C20 ---
\* a turn with a missing content made the empty string
contentNormalized(m) ==
  [m EXCEPT !.content = IF @ = None THEN Some(<<>>) ELSE @]

\* an assistant turn with its empty list of tool calls removed
toolCallsNormalized(m) ==
  IF m.role = "assistant" /\ m.tool_calls = Some(<<>>)
  THEN [m EXCEPT !.tool_calls = None]
  ELSE m

turnNormalized(m) == contentNormalized(toolCallsNormalized(m))

\* out[i..] is in[j..] with turns left out: every output turn is matched with
\* the first input turn equal to it
RECURSIVE keptInOrder(_, _, _, _)
keptInOrder(out, in, i, j) ==
  IF i > Len(out) THEN TRUE
  ELSE IF j > Len(in) THEN FALSE
  ELSE IF out[i] = in[j] THEN keptInOrder(out, in, i + 1, j + 1)
  ELSE keptInOrder(out, in, i, j + 1)

contentsNormalized(h) == [i \in 1..Len(h) |-> contentNormalized(h[i])]
toolCallsOfNormalized(h) == [i \in 1..Len(h) |-> toolCallsNormalized(h[i])]
turnsNormalized(h) == [i \in 1..Len(h) |-> turnNormalized(h[i])]

\* C20 as stated: the sanitized history is the input history with turns left
\* out, in the input's order, and every kept turn is its input turn with only
\* a missing content replaced by the empty string.
C20_AsClaimed ==
  sanPc = "safe" => keptInOrder(sanOut, contentsNormalized(sanIn), 1, 1)

\* C20: the sanitized history is the input history with turns left out, in
\* the input's order, and every kept turn is its input turn with a missing
\* content replaced by the empty string and, on an assistant turn, an empty
\* list of tool calls removed.
C20_OnlyRemovesOrNormalizes ==
  /\ sanPc \in {"fetched", "safe"} => keptInOrder(sanMid, toolCallsOfNormalized(sanIn), 1, 1)
  /\ sanPc = "safe" =>
       /\ keptInOrder(sanOut, contentsNormalized(sanMid), 1, 1)
       /\ keptInOrder(sanOut, turnsNormalized(sanIn), 1, 1)

\* a history of four turns sanitized to three: one turn dropped, one given an
\* empty content, one relieved of its empty list of tool calls
C20_Witness ==
  /\ sanPc = "safe" /\ Len(sanIn) = 4 /\ Len(sanOut) = 3
  /\ \E i \in 1..4 : sanIn[i].role = "assistant" /\ sanIn[i].tool_calls = Some(<<>>)
  /\ \E i \in 1..4 : sanIn[i].role = "tool" /\ sanIn[i].content = None
  /\ \E i \in 1..3 : sanOut[i].role = "tool" /\ sanOut[i].content = Some(<<>>)
  /\ \A i \in 1..3 : sanOut[i].tool_calls /= Some(<<>>)

\* --- C21 ---
\* the instruction is nothing but a relative size phrase
onlyRelativeSizeWording(e) ==
  e.loc.hintSource \in {h_mouSukoshiOokiku, h_mottoChiisaku}

\* C21 as stated: for an instruction whose only size wording is a relative
\* phrase, with no caller-supplied size, on a thread whose stored size is s,
\* the instruction parses to a direction and no absolute size, and the
\* resolved size is s stepped one position in that direction, clamped.
C21_AsClaimed ==
  \A c \in composing :
    LET e == edit(c) IN
    (/\ onlyRelativeSizeWording(e) /\ e.args.size = None
     /\ IsSome(e.last) /\ sizeRank(Get(e.last).size) > 0)
    => /\ e.loc.parsed.size = None /\ IsSome(e.loc.parsed.sizeAdjust)
       /\ e.sent.size = adjustSize(Get(e.last).size, e.loc.parsed.sizeAdjust)

\* the "smaller" half of C21 alone, which the code satisfies
C21_SmallerHalf ==
  \A c \in composing :
    LET e == edit(c) IN
    (/\ e.loc.hintSource = h_mottoChiisaku /\ e.args.size = None
     /\ IsSome(e.last) /\ sizeRank(Get(e.last).size) > 0)
    => /\ e.loc.parsed.size = None /\ e.loc.parsed.sizeAdjust = Some("smaller")
       /\ e.sent.size = adjustSize(Get(e.last).size, Some("smaller"))

\* --- C22 ---
\* C22: each stored offset of an overlay edit is base + delta: delta is the
\* nudge parsed from the instruction plus the caller-supplied offset; base is
\* 0 when the instruction has a parsed horizontal or vertical alignment or a
\* position word (also one restating the stored alignment), and the thread's
\* previously stored offset, 0 if none, otherwise.
C22_OffsetIsBasePlusDelta ==
  \A c \in composing :
    LET e == edit(c)
        p == e.loc.parsed
        absolute == \/ IsSome(p.align) \/ IsSome(p.vAlign)
                    \/ includesAny(e.loc.hintSource, PositionWords)
        deltaX == OrElse(p.offsetX, 0) + OrElse(e.args.offsetX, 0)
        deltaY == OrElse(p.offsetY, 0) + OrElse(e.args.offsetY, 0)
        baseX == IF absolute \/ e.last = None THEN 0 ELSE Get(e.last).offsetX
        baseY == IF absolute \/ e.last = None THEN 0 ELSE Get(e.last).offsetY
    IN /\ e.stored.offsetX = baseX + deltaX /\ e.sent.offsetX = e.stored.offsetX
       /\ e.stored.offsetY = baseY + deltaY /\ e.sent.offsetY = e.stored.offsetY

\* a centred text moved off its place is told "centre" again, with a
\* caller-supplied offset: the stored offset is that offset alone
C22_Witness ==
  \E c \in composing :
    LET e == edit(c) IN
    /\ IsSome(e.last) /\ Get(e.last).align = "center" /\ Get(e.last).offsetX = 2 * NudgeX
    /\ e.loc.hintSource = h_chuuouNi /\ e.loc.parsed.align = Some("center")
    /\ e.args.offsetX = Some(NudgeX)
    /\ e.stored.offsetX = NudgeX

\* --- C23 ---
\* C23 as stated: the size stored in a thread's layout memory, and the size
\* sent to the composition service, is always one of small, medium, large,
\* xlarge, whatever the size argument of the overlay edit was.
C23_AsClaimed ==
  /\ \A t \in DOMAIN lastTextLayoutByThread :
       lastTextLayoutByThread[t].size \in {"small", "medium", "large", "xlarge"}
  /\ \A c \in composing :
       Get(calls[c].sent).size \in {"small", "medium", "large", "xlarge"}

\* --- C24 ---
withoutFunctionTurns(h) == SelectSeq(h, LAMBDA m : m.role /= "function")

\* position i of h is a tool turn naming an id issued by the nearest assistant
\* turn before it, with nothing but function-role turns between the two
answersAcrossFunctionTurns(h, i) ==
  LET j == nearestAssistant(h, i) IN
  /\ h[i].role = "tool" /\ j > 0 /\ j < i - 1
  /\ IsSome(h[j].tool_calls) /\ IsSome(h[i].tool_call_id)
  /\ Get(h[i].tool_call_id) /= ""
  /\ \E n \in 1..Len(Get(h[j].tool_calls)) :
       Get(h[j].tool_calls)[n] = Get(h[i].tool_call_id)
  /\ \A k \in (j + 1)..(i - 1) : h[k].role = "function"

\* C24 as stated: function-role turns are dropped before the orphan tracking,
\* so the sanitized history is that of the input without its function-role
\* turns, and a tool turn answering the most recent assistant turn across
\* function-role turns alone is retained.
C24_AsClaimed ==
  sanPc = "safe" =>
    /\ sanOut = sanitized(withoutFunctionTurns(sanIn))
    /\ \A i \in 1..Len(sanIn) :
         (answersAcrossFunctionTurns(sanIn, i) /\ toolTurns(sanIn) = 1)
         => toolTurns(sanOut) = 1

\* --- C25 ---
\* C25 as stated: _getExtensions and ChatApiExtensions agree on whether the
\* thread is a CRM thread, in every configuration: the default tools are left
\* unfetched exactly when the thread is one ChatApiExtensions sends down
\* runSfDirect, and a turn of the extensions strategy has fetched the default
\* tools if and only if it uses the tool-augmented completion.
C25_AsClaimed ==
  /\ IsSome(fetched.toolSources) =>
       ((Get(fetched.toolSources).default = NotFetched) <=> hasSfExtension(req.chatThread))
  /\ (chatType = "extensions" /\ callsOf("ChatApiExtensions") > 0) =>
       (callsOf("GetDefaultExtensions") > 0 <=> callsOf("runTools") > 0)

\* --- C26 ---
\* the layout a composition request carries
layoutSent(c) == [f \in LayoutFields |-> Get(calls[c].sent)[f]]

\* an overlay edit that issued its composition request and ended in an error
failedEdit(c) ==
  /\ calls[c].op = "add_text" /\ calls[c].phase = "done" /\ IsSome(calls[c].sent)
  /\ IsSome(Get(calls[c].result).error)

compositionFailed(c) ==
  /\ c \in composing
  /\ \E o \in {"throw", "http_error", "no_image_url"} : AddTextComposed(c, o)

\* C26: the resolved layout is in layout memory when the composition request
\* is issued; when the composition fails (exception, non-success status, no
\* image reference) the edit returns an object carrying an error while layout
\* memory keeps the new layout; and the next edit of the thread resolves
\* against that layout.
C26_LayoutStoredBeforeComposition ==
  [][\A c \in DOMAIN calls :
       /\ c \in composing =>
            mapGet(lastTextLayoutByThread, calls[c].thread) = Some(layoutSent(c))
       /\ compositionFailed(c) =>
            /\ failedEdit(c)'
            /\ Get(calls'[c].result).type = "object"
            /\ mapGet(lastTextLayoutByThread', calls[c].thread) = Some(layoutSent(c))
       /\ (failedEdit(c) /\ calls'[c].phase = "composing") =>
            calls'[c].last = Some(layoutSent(c))]_vars

\* an edit failed in composition after moving the text a second step to the
\* right; layout memory holds the offset that was never rendered
C26_Witness ==
  \E c \in DOMAIN calls :
    /\ failedEdit(c)
    /\ Get(calls[c].sent).offsetX = 2 * NudgeX
    /\ lastTextLayoutByThread[calls[c].thread].offsetX = 2 * NudgeX

\* --- C27 ---
\* the edit in slot c names no position, so it moves the text from where it is
relativeEdit(c) ==
  ~locals(Get(calls[c].args), calls[c].userMessage).positionSpecified

deltaX(c) == locals(Get(calls[c].args), calls[c].userMessage).deltaOffsetX

storedOffsetX(memory, t) == IF t \in DOMAIN memory THEN memory[t].offsetX ELSE 0

\* slot d begins an overlay edit in this step
beginsEdit(d) ==
  /\ calls[d].phase \in {"idle", "done"}
  /\ calls'[d].op = "add_text" /\ calls'[d].phase = "composing"

\* C27: an overlay edit reads layout memory, resolves and writes back in one
\* step, also while another edit of the thread is in flight: the layout it
\* resolves against is the one in memory when it writes, and a nudge begun
\* while another nudge of the thread awaits its composition leaves an offset
\* that holds both deltas.
C27_NoLostUpdate ==
  [][\A d \in DOMAIN calls :
       beginsEdit(d) =>
         /\ calls'[d].last = mapGet(lastTextLayoutByThread, calls'[d].thread)
         /\ mapGet(lastTextLayoutByThread', calls'[d].thread) = Some(layoutSent(d)')
         /\ \A c \in composing \ {d} :
              (/\ calls[c].thread = calls'[d].thread
               /\ mapGet(lastTextLayoutByThread, calls[c].thread) = Some(layoutSent(c))
               /\ relativeEdit(c) /\ relativeEdit(d)')
              => lastTextLayoutByThread'[calls[c].thread].offsetX =
                   (IF IsSome(calls[c].last) THEN Get(calls[c].last).offsetX ELSE 0)
                     + deltaX(c) + deltaX(d)']_vars

\* two nudges of one thread await their composition together, the second
\* begun on a fresh thread after the first: memory holds both steps
C27_Witness ==
  /\ composing = {1, 2} /\ calls[1].thread = calls[2].thread
  /\ relativeEdit(1) /\ relativeEdit(2)
  /\ calls[1].last = None /\ calls[2].last = Some(layoutSent(1))
  /\ deltaX(1) = NudgeX /\ deltaX(2) = NudgeX
  /\ lastTextLayoutByThread[calls[1].thread].offsetX = 2 * NudgeX

\* --- C28 ---
\* the slots whose call moved in this step
acting == {c \in DOMAIN calls : calls'[c] /= calls[c]}

\* C28: layout memory is kept per thread: a step of an image-tool call on a
\* thread changes no other thread's entry, an overlay edit resolves against
\* its own thread's entry alone, and a new base image removes its own
\* thread's entry alone, whatever calls are in flight on other threads.
C28_ThreadIsolation ==
  [][/\ \A t \in Threads :
          mapGet(lastTextLayoutByThread', t) /= mapGet(lastTextLayoutByThread, t)
          => \E c \in acting : calls'[c].thread = t
     /\ \A d \in DOMAIN calls :
          beginsEdit(d) =>
            layoutSent(d)' =
              resolveLayout(Get(calls'[d].args),
                            locals(Get(calls'[d].args), calls'[d].userMessage),
                            mapGet(lastTextLayoutByThread, calls'[d].thread))
     /\ \A c \in DOMAIN calls :
          (calls[c].op = "create_img" /\ calls[c].phase = "upload_base"
           /\ calls'[c].phase = "done" /\ IsSome(Get(calls'[c].result).url))
          => /\ calls[c].thread \notin DOMAIN lastTextLayoutByThread'
             /\ \A t \in Threads \ {calls[c].thread} :
                  mapGet(lastTextLayoutByThread', t) = mapGet(lastTextLayoutByThread, t)]_vars

\* a new base image was stored for one thread while an overlay edit of the
\* other thread awaits its composition: that thread's layout is still there
C28_Witness ==
  \E c \in composing, d \in DOMAIN calls :
    /\ calls[d].op = "create_img" /\ calls[d].phase = "done"
    /\ Get(calls[d].result).url = Some("stored")
    /\ calls[d].thread /= calls[c].thread
    /\ calls[d].thread \notin DOMAIN lastTextLayoutByThread
    /\ mapGet(lastTextLayoutByThread, calls[c].thread) = Some(layoutSent(c))
    /\ layoutSent(c).offsetX = 2 * NudgeX

\* --- C29 ---
occurrences(h, m) == Len(SelectSeq(h, LAMBDA x : x = m))

\* the stored thread as it was before this turn recorded anything
storeBeforeTurn ==
  IF callsOf("CreateChatMessage") > 0 THEN SubSeq(store, 1, Len(store) - 1) ELSE store

\* C29: in a turn the history is fetched before the user's message is
\* recorded: the fetched history is that of the thread before the turn and
\* does not hold the turn's message; the message list ChatApiExtensions
\* submits (runTools, or the stream of runSfDirect) is the system message,
\* the whole sanitized history, then the user's message, once, followed at
\* most by the gateway directive.
C29_HistoryFetchedBeforeRecord ==
  /\ \A i, j \in 1..Len(log) :
       (log[i] = "_getHistory" /\ log[j] = "CreateChatMessage") => i < j
  /\ callsOf("CreateChatMessage") > 0 => IsSome(fetched.history)
  /\ IsSome(fetched.history) =>
       /\ Get(fetched.history) \in {<<>>, fixOrphanToolsInline(storeBeforeTurn)}
       /\ occurrences(Get(fetched.history), userTurn(req.message)) = 0
  /\ (IsSome(submitted) /\ Get(submitted).api \in {"runTools", "stream"}) =>
       LET messages == Get(submitted).messages
           history == sanitizeHistory(Get(fetched.history))
           n == Len(history)
       IN /\ Len(messages) \in {n + 2, n + 3}
          /\ messages[1].role = "system"
          /\ SubSeq(messages, 2, n + 1) = history
          /\ messages[n + 2] = userTurn(req.message)
          /\ occurrences(messages, userTurn(req.message)) = 1
          /\ Len(messages) = n + 3 => messages[n + 3].role = "system"

\* a CRM turn on a thread with a stored history answered through the gateway
C29_Witness ==
  /\ pc = "done" /\ IsSome(submitted) /\ Get(submitted).api = "stream"
  /\ callsOf("gateway") = 1
  /\ Len(store) = 5 /\ Len(Get(fetched.history)) = 3
  /\ Len(Get(submitted).messages) = 4
  /\ Get(submitted).messages[3] = userTurn(m_ankenKingaku)
  /\ Get(submitted).messages[4].role = "system"
  /\ store[5] = userTurn(m_ankenKingaku)

\* --- C30 ---
\* the messages submitted after the user's message
afterUserMessage ==
  LET messages == Get(submitted).messages
      n == Len(sanitizeHistory(Get(fetched.history)))
  IN SubSeq(messages, n + 3, Len(messages))

isErrorDirective(m) == m.role = "system" /\ includes(Get(m.content), <<SfErrorLead>>)
isJsonDirective(m) == m.role = "system" /\ includes(Get(m.content), <<SfJsonLead>>)
isNoJsonDirective(m) == m.role = "system" /\ m.content = Some(<<"SF_NO_VALID_JSON">>)

gatewayAnswered == callsOf("gateway") > 0 /\ IsSome(sf.outcome) /\ IsSome(submitted)

\* the gateway answered 2xx with a body that parses as JSON
parsedAnswer(o) == o.kind = "http" /\ o.ok /\ o.parses

oneDirectiveBySelection ==
  LET directive == afterUserMessage[1]
      withSnippet == IsSome(sf.sfJson) /\ Get(sf.sfJson).truthy
  IN /\ Len(afterUserMessage) = 1
     /\ isErrorDirective(directive) <=> IsSome(sf.sfError)
     /\ isJsonDirective(directive) <=> (sf.sfError = None /\ withSnippet)
     /\ isNoJsonDirective(directive) <=> (sf.sfError = None /\ ~withSnippet)
     /\ ~(isErrorDirective(directive) /\ isJsonDirective(directive))
     /\ IsSome(sf.sfError) <=> gatewayFailed(Get(sf.outcome))

\* C30 as stated: after the gateway request exactly one system directive
\* follows the user's message: the error directive iff an error was recorded,
\* else the JSON directive iff a non-empty snippet was produced, else the
\* no-valid-JSON directive; never both the error and the JSON directive; and
\* every 2xx answer that parses yields the JSON directive.
C30_AsClaimed ==
  gatewayAnswered =>
    /\ oneDirectiveBySelection
    /\ parsedAnswer(Get(sf.outcome)) => isJsonDirective(afterUserMessage[1])

\* C30: after the gateway request exactly one system directive follows the
\* user's message: the error directive iff an error was recorded, else the
\* JSON directive iff a non-empty snippet was produced, else the
\* no-valid-JSON directive; never both the error and the JSON directive; a
\* 2xx answer that parses yields the JSON directive when the parsed value is
\* truthy and the no-valid-JSON directive when it is null or another falsy
\* value.
C30_OneDirective ==
  gatewayAnswered =>
    /\ oneDirectiveBySelection
    /\ parsedAnswer(Get(sf.outcome)) =>
         LET json == Get(sf.outcome).json IN
         IF IsSome(json) /\ Get(json).truthy
         THEN isJsonDirective(afterUserMessage[1])
         ELSE isNoJsonDirective(afterUserMessage[1])

\* the gateway answered 200 with a body that parses to a falsy value
C30_Witness ==
  /\ pc = "done" /\ gatewayAnswered
  /\ parsedAnswer(Get(sf.outcome))
  /\ IsSome(Get(sf.outcome).json) /\ ~Get(Get(sf.outcome).json).truthy
  /\ isNoJsonDirective(afterUserMessage[1])
====
